---- MODULE Spec2Model ----
(***************************************************************************)
(* cl-hubeau: the paginated fetch engine of BaseHubeauSession (get_result, *)
(* map_func), the per-endpoint facades that call it and the convenience    *)
(* loopers that call the facades, run against a synthetic Hub'Eau server.  *)
(*                                                                         *)
(* Coding of Python values:                                                *)
(*   - a dict is a function whose DOMAIN is its set of keys;               *)
(*   - parameter values are integers; the empty string "" is EMPTY;        *)
(*   - a date "yyyy-MM-dd" is the number of its calendar day (1..NDays);   *)
(*   - a table (DataFrame) is the sequence of its row segments             *)
(*     <<day, lo, hi>>: rows lo..hi of the server's rows of that day.      *)
(***************************************************************************)
EXTENDS Integers, Sequences, FiniteSets, TLC

VARIABLES
    cnt,        \* server: number of rows stored for each day
    style,      \* server: pagination style of the endpoint, "page" or "cursor"
    size,       \* session.size, the page size
    config,     \* cl_hubeau._config, the package's settings
    enc,        \* a call of list_to_str_param and of it again on its result
    looper,     \* the convenience function the client called, if any
    fac,        \* the facade call in progress, if any
    params,     \* the params dict handed to get_result (one shared object)
    params0,    \* its content when get_result was called
    time_start, \* get_result's time_start argument ("" is None)
    time_end,   \* get_result's time_end argument ("" is None)
    stack,      \* the activations of get_result, innermost last
    log,        \* every HTTP request issued so far, in order
    answers,    \* what each request of log was answered, once it is
    call0,      \* length of log when the current get_result was called
    inflight,   \* indexes in log of the requests not answered yet
    outcome,    \* how the outermost get_result ended
    warned,     \* the result-count warnings emitted by the current get_result
    probed,     \* count_rows read by the outermost get_result (-1: not yet)
    nfail,      \* transport failures so far
    ndrift,     \* server data changes so far
    ver,        \* the API versions expected and served, the warnings on them
    tr,         \* one request seen from the transport: its attempts
    columns,    \* the columns of the table the outermost get_result returned
    win         \* a call of prepare_kwargs_loops: its arguments and its result

engine_vars == <<params, params0, time_start, time_end, stack, log, answers,
                 call0, inflight, outcome, warned, probed>>
vars == <<cnt, style, size, config, enc, looper, fac, params, params0, time_start, time_end,
          stack, log, answers, call0, inflight, outcome, warned, probed, nfail,
          ndrift, ver, tr, columns, win>>

----------------------------------------------------------------------------
(* Bounds of the model *)

NDays == 3
RecursionLimit == 4
MaxFailures == 1
MaxDrifts == 1
MaxItems == 2

(* Program constants *)

HUBEAU_MAX_ROWS == 20000
THREADS == 10

Days == 1..NDays
\* rows of a day: none, fewer than the server's ceiling, and for the latest
\* day also more than the ceiling
Counts == {0, 12000}
LastCounts == {0, 12000, 20001}
LooperCounts == {0, 600}
Stores == {c \in [Days -> Counts \cup LastCounts] :
              \A d \in Days : c[d] \in (IF d = NDays THEN LastCounts ELSE Counts)}
Sizes == {5000, 12000}
\* settings of _config["THREADS"]: a cap below the page counts, the default
ThreadCaps == {2, THREADS}
EMPTY == -1
DriftDeltas == {-1, 1}

Min(a, b) == IF a <= b THEN a ELSE b
Max(a, b) == IF a >= b THEN a ELSE b

----------------------------------------------------------------------------
(* dicts *)

Has(m, k) == k \in DOMAIN m
Put(m, k, v) == [x \in (DOMAIN m) \cup {k} |-> IF x = k THEN v ELSE m[x]]
Del(m, ks) == [x \in (DOMAIN m) \ ks |-> m[x]]
EmptyDict == [x \in {} |-> 0]

----------------------------------------------------------------------------
(* tables *)

RECURSIVE NRows(_)
NRows(t) == IF t = <<>> THEN 0
            ELSE (Head(t)[3] - Head(t)[2] + 1) + NRows(Tail(t))

RECURSIVE Concat(_)
Concat(ts) == IF ts = <<>> THEN <<>> ELSE Head(ts) \o Concat(Tail(ts))

RECURSIVE NonEmpty(_)
NonEmpty(ts) == IF ts = <<>> THEN <<>>
                ELSE IF NRows(Head(ts)) = 0 THEN NonEmpty(Tail(ts))
                ELSE <<Head(ts)>> \o NonEmpty(Tail(ts))

\* the columns of the records the server sends: "code" is filled in every
\* row, "opt" is null in the rows of day 1 and filled in the others
Columns == {"code", "opt"}
IsNull(c, d) == c = "opt" /\ d = 1

\* column c is null in every row of table t
AllNull(c, t) == \A k \in 1..Len(t) : IsNull(c, t[k][1])

\* pd.DataFrame(results), pd.DataFrame() when there is no record: the
\* columns are the keys of the records
FrameColumns(rows) == IF NRows(rows) = 0 THEN {} ELSE Columns

\* x.dropna(axis=1, how="all")
DropNa(cols, t) == {c \in cols : ~AllNull(c, t)}

----------------------------------------------------------------------------
(* The synthetic server: the rows of day d belong to department DepOfDay(d) *)
(* and a query selects the days its date and department filters match.      *)

DepOfDay(d) == ((d - 1) % 2) + 1
\* the rows of day d are of the station of code d
CodeOfDay(d) == d
\* date.today().year
ThisYear == 2014
\* the rows of the latest day are of the current year, those of the day
\* before of the year before
YearOfDay(d) == ThisYear - NDays + d

Matches(prm, d) ==
    /\ Has(prm, "date_debut") => d >= prm["date_debut"]
    /\ Has(prm, "date_fin") => d <= prm["date_fin"]
    /\ Has(prm, "code_departement") => DepOfDay(d) = prm["code_departement"]
    /\ Has(prm, "code_bss") => CodeOfDay(d) = prm["code_bss"]
    /\ Has(prm, "code_territoire") => DepOfDay(d) = prm["code_territoire"]
    /\ Has(prm, "annee_min") => YearOfDay(d) >= prm["annee_min"]
    /\ Has(prm, "annee_max") => YearOfDay(d) <= prm["annee_max"]

RECURSIVE CountUpTo(_, _, _)
CountUpTo(c, prm, d) ==
    IF d = 0 THEN 0
    ELSE (IF Matches(prm, d) THEN c[d] ELSE 0) + CountUpTo(c, prm, d - 1)

ServerCount(c, prm) == CountUpTo(c, prm, NDays)

\* rows lo..hi (1-based, inclusive) of the query's result list, from day d on
RECURSIVE Slice(_, _, _, _, _)
Slice(c, prm, lo, hi, d) ==
    IF d > NDays THEN <<>>
    ELSE LET off == CountUpTo(c, prm, d - 1)
             a == Max(lo, off + 1)
             b == Min(hi, off + c[d])
         IN  (IF Matches(prm, d) /\ a <= b THEN <<<<d, a - off, b - off>>>>
              ELSE <<>>) \o Slice(c, prm, lo, hi, d + 1)

\* the JSON body answering a request with query parameters prm
Response(c, st, prm) ==
    LET sz == prm["size"]
        total == ServerCount(c, prm)
        from == IF st = "page"
                THEN ((IF Has(prm, "page") THEN prm["page"] ELSE 1) - 1) * sz
                ELSE (IF Has(prm, "cursor") THEN prm["cursor"] ELSE 0)
    IN  [count |-> total,
         first |-> IF st = "page" THEN {"page", "size"} ELSE {"cursor", "size"},
         next |-> IF st = "cursor" /\ from + sz < total THEN from + sz ELSE 0,
         data |-> Slice(c, prm, from + 1, from + sz, 1)]

----------------------------------------------------------------------------
(* get_result *)

\* an exception: its Python class, what it reports, the request it is about
Error(type, what, req) == [type |-> type, what |-> what, req |-> req]
NoError == Error("", "", 0)
Running == [status |-> "running", table |-> <<>>, err |-> NoError]
Returned(table) == [status |-> "returned", table |-> table, err |-> NoError]
Raised(err) == [status |-> "raised", table |-> <<>>, err |-> err]

\* what a failed GET raises: request's ValueError on a response that is not
\* ok, or the RetryError of the adapter once the retries on 5xx are spent
FailKinds == {"ValueError", "RetryError"}
\* variant: the failure is wrapped into another exception on its way out
WrappedError(kind, req) == Error("RuntimeError", "transport", req)
TransportError(kind, req) == Error(kind, "transport", req)

\* except ValueError catches ValueError and its subclasses
IsValueError(err) == err.type \in {"ValueError", "UnexpectedArguments"}

Frame0 == [pc |-> "start", count_rows |-> 0, page |-> "",
           timeranges |-> <<>>, wi |-> 0, results |-> <<>>,
           count_pages |-> 0, threads |-> 0, started |-> 0, resp |-> <<>>,
           collected |-> 0, rows |-> <<>>, cursor |-> 0, ret |-> <<>>,
           retcols |-> {}, rescols |-> {}]

Top == stack[Len(stack)]
SetTop(f) == [stack EXCEPT ![Len(stack)] = f]
Active == stack # <<>>

Request(kind, prm) ==
    [kind |-> kind, prm |-> prm, depth |-> Len(stack), call |-> call0]

\* the record of an answer: the count and the next cursor of the body, or
\* the class of the exception the GET raised
Pending == [st |-> "pending", count |-> 0, next |-> 0, exc |-> ""]
Answered(js) == [st |-> "ok", count |-> js.count, next |-> js.next, exc |-> ""]
Failed(kind) == [st |-> "failed", count |-> 0, next |-> 0, exc |-> kind]

\* an exception leaves every activation of get_result: none has a handler
Raise(err) ==
    /\ stack' = <<>>
    /\ outcome' = Raised(err)

RemoveEmpty(p) == Del(p, {k \in DOMAIN p : p[k] = EMPTY})

\* self.version and js["api_version"] (0: None, or a body without the key),
\* the warnings filter of the interpreter, and what was emitted so far
NoVer == [version |-> 0, api_version |-> 1, filter |-> "default",
          events |-> <<>>]

\* the url get_result is called with: each endpoint has its own
Url == IF fac.name # "" THEN fac.name ELSE "url"

Emitted(v, kind, url) ==
    {k \in 1..Len(v.events) : v.events[k] = [kind |-> kind, url |-> url]}
Emit(v, kind, url) ==
    [v EXCEPT !.events = Append(@, [kind |-> kind, url |-> url])]

\* warnings.warn: the filter "default" lets a warning through once for its
\* text and line of code, the filter "always" every time
Warn(v, url) ==
    IF v.filter = "always"
       \/ \A k \in 1..Len(v.events) : v.events[k].kind # "warn"
    THEN Emit(v, "warn", url)
    ELSE v

\* log_only_once under lru_cache: the body runs once for each url
LogOnlyOnce(v, url) ==
    IF Emitted(v, "log", url) # {} THEN v ELSE Emit(v, "log", url)

\* js["api_version"] is compared with self.version
VersionCheck(v, url) ==
    IF v.version = 0 THEN v
    ELSE IF v.api_version = 0 THEN LogOnlyOnce(v, url)
    ELSE IF v.version # v.api_version THEN Warn(v, url)
    ELSE v

\* pd.date_range(start, end, freq="D")
DateRange(start, end) == [i \in 1..Max(end - start + 1, 0) |-> start + i - 1]

\* variant: the first part is the whole array
ArraySplit2Whole(x) == <<x, <<>>>>
\* np.array_split(x, 2): the first part takes the odd element
ArraySplit2(x) ==
    LET n == Len(x)
        h == (n \div 2) + (n % 2)
    IN  <<SubSeq(x, 1, h), SubSeq(x, h + 1, n)>>

\* variant: one page more than the integer quotient, whatever the remainder
CountPagesOff(count_rows, sz) == (count_rows \div sz) + 1
CountPages(count_rows, sz) ==
    (count_rows \div sz) + (IF count_rows % sz = 0 THEN 0 ELSE 1)

\* variant: one worker for each page, whatever the configured cap
PoolThreadsPerPage(page, count_pages) ==
    IF page = "page" THEN count_pages ELSE 1
PoolThreads(page, count_pages) ==
    IF page = "page" THEN Min(config.THREADS, count_pages) ELSE 1

\* variant: every copy is given the number of the first page
IterableFirst(p, page, x) == Put(p, page, 1)
Iterable(p, page, x) == Put(p, page, x)

ProbeSend ==
    /\ Active
    /\ Top.pc = "start"
    /\ params' = RemoveEmpty(params)
    /\ log' = Append(log, Request("probe", Put(params', "size", 1)))
    /\ answers' = Append(answers, Pending)
    /\ inflight' = inflight \cup {Len(log) + 1}
    /\ stack' = SetTop([Top EXCEPT !.pc = "probe"])
    /\ UNCHANGED <<params0, time_start, time_end, outcome, warned, probed>>
    /\ UNCHANGED <<cnt, style, size, config, enc, looper, fac, call0, nfail, ndrift>>
    /\ UNCHANGED <<ver, tr, columns, win>>

ProbeFails(i, kind) ==
    /\ Active
    /\ Top.pc = "probe"
    /\ i \in inflight
    /\ nfail < MaxFailures
    /\ nfail' = nfail + 1
    /\ inflight' = inflight \ {i}
    /\ answers' = [answers EXCEPT ![i] = Failed(kind)]
    /\ Raise(TransportError(kind, i))
    /\ UNCHANGED <<params, params0, time_start, time_end, log, warned, probed>>
    /\ UNCHANGED <<cnt, style, size, config, enc, looper, fac, call0, ndrift>>
    /\ UNCHANGED <<ver, tr, columns, win>>

ProbeRecv(i) ==
    /\ Active
    /\ Top.pc = "probe"
    /\ i \in inflight
    /\ inflight' = inflight \ {i}
    /\ answers' = [answers EXCEPT ![i] = Answered(Response(cnt, style, log[i].prm))]
    /\ LET js == Response(cnt, style, log[i].prm)
           page == IF "page" \in js.first THEN "page" ELSE "cursor"
           count_rows == js.count
           count_pages == CountPages(count_rows, size)
       IN  /\ probed' = IF Len(stack) = 1 THEN count_rows ELSE probed
           /\ IF count_rows > HUBEAU_MAX_ROWS
              THEN IF ~(time_start # "" /\ time_end # "")
                   THEN Raise(Error("ValueError", "too_large", 0)) /\ UNCHANGED params
                   ELSE IF ~(Has(params, time_start) /\ Has(params, time_end))
                   THEN Raise(Error("KeyError", "missing_date", 0)) /\ UNCHANGED params
                   ELSE /\ stack' = SetTop([Top EXCEPT
                               !.pc = "loop", !.count_rows = count_rows,
                               !.page = page, !.wi = 1,
                               !.timeranges = ArraySplit2(DateRange(
                                   params[time_start], params[time_end]))])
                        /\ UNCHANGED <<params, outcome>>
              ELSE /\ params' = Put(params, "size", size)
                   /\ stack' = SetTop([Top EXCEPT
                          !.pc = IF page = "page" THEN "pages" ELSE "cursor",
                          !.count_rows = count_rows, !.page = page,
                          !.count_pages = count_pages,
                          !.threads = PoolThreads(page, count_pages),
                          !.resp = [x \in 1..count_pages |->
                                       [st |-> "todo", data |-> <<>>, err |-> NoError]]])
                   /\ UNCHANGED outcome
    /\ UNCHANGED <<params0, time_start, time_end, log, warned>>
    /\ UNCHANGED <<cnt, style, size, config, enc, looper, fac, call0, nfail, ndrift>>
    /\ ver' = VersionCheck(ver, Url)
    /\ UNCHANGED <<tr, columns, win>>


\* pebble.ThreadPool.map hands the pages to the workers in page order; with
\* threads <= 1 map_func is a plain loop, one page after the other
WorkerStart ==
    /\ Active
    /\ Top.pc \in {"pages", "join"}
    /\ Top.started < Top.count_pages
    /\ IF Top.threads > 1
       THEN Cardinality(inflight) < Top.threads
       ELSE Top.pc = "pages" /\ Top.collected = Top.started
    /\ LET x == Top.started + 1
       IN  /\ log' = Append(log, Request("page", Iterable(params, Top.page, x)))
           /\ stack' = SetTop([Top EXCEPT !.started = x,
                  !.resp[x] = [st |-> "sent", data |-> <<>>, err |-> NoError]])
    /\ answers' = Append(answers, Pending)
    /\ inflight' = inflight \cup {Len(log) + 1}
    /\ UNCHANGED <<params, params0, time_start, time_end, outcome, warned, probed>>
    /\ UNCHANGED <<cnt, style, size, config, enc, looper, fac, call0, nfail, ndrift>>
    /\ UNCHANGED <<ver, tr, columns, win>>

\* func of the page branch, run by a worker: one GET, returns r.json()[key]
WorkerFinish(i) ==
    /\ Active
    /\ Top.pc \in {"pages", "join"}
    /\ i \in inflight
    /\ inflight' = inflight \ {i}
    /\ answers' = [answers EXCEPT ![i] = Answered(Response(cnt, style, log[i].prm))]
    /\ LET x == log[i].prm["page"]
       IN  stack' = SetTop([Top EXCEPT !.resp[x] =
               [st |-> "ok", data |-> Response(cnt, style, log[i].prm).data,
                err |-> NoError]])
    /\ UNCHANGED <<params, params0, time_start, time_end, log, outcome, warned, probed>>
    /\ UNCHANGED <<cnt, style, size, config, enc, looper, fac, call0, nfail, ndrift>>
    /\ UNCHANGED <<ver, tr, columns, win>>

WorkerFails(i, kind) ==
    /\ Active
    /\ Top.pc \in {"pages", "join"}
    /\ i \in inflight
    /\ nfail < MaxFailures
    /\ nfail' = nfail + 1
    /\ inflight' = inflight \ {i}
    /\ answers' = [answers EXCEPT ![i] = Failed(kind)]
    /\ LET x == log[i].prm["page"]
       IN  stack' = SetTop([Top EXCEPT !.resp[x] =
               [st |-> "err", data |-> <<>>, err |-> TransportError(kind, i)]])
    /\ UNCHANGED <<params, params0, time_start, time_end, log, outcome, warned, probed>>
    /\ UNCHANGED <<cnt, style, size, config, enc, looper, fac, call0, ndrift>>
    /\ UNCHANGED <<ver, tr, columns, win>>

\* variant: the payload takes the place of the results gathered so far
PlusEqLast(results, payload) == payload
\* results += next(iterator), results += func(x)
PlusEq(results, payload) == results \o payload

\* results += next(iterator): the results come in page order; a failed page
\* raises here, and leaving the with block closes and joins the pool
Collect ==
    /\ Active
    /\ Top.pc = "pages"
    /\ Top.collected < Top.count_pages
    /\ LET x == Top.collected + 1
           r == Top.resp[x]
       IN  /\ r.st \in {"ok", "err"}
           /\ IF r.st = "ok"
              THEN /\ stack' = SetTop([Top EXCEPT !.collected = x,
                                           !.rows = PlusEq(Top.rows, r.data)])
                   /\ UNCHANGED outcome
              ELSE IF Top.threads > 1
              THEN /\ stack' = SetTop([Top EXCEPT !.pc = "join", !.collected = x])
                   /\ UNCHANGED outcome
              ELSE Raise(r.err)
    /\ UNCHANGED <<params, params0, time_start, time_end, log, answers, inflight, warned, probed>>
    /\ UNCHANGED <<cnt, style, size, config, enc, looper, fac, call0, nfail, ndrift>>
    /\ UNCHANGED <<ver, tr, columns, win>>

\* variant: the pool is terminated, its workers are not waited for
PoolTerminated(f) == TRUE
\* leaving the with block closes the pool, whose queued tasks are still run,
\* and joins its workers
PoolJoined(f) == f.started = f.count_pages /\ inflight = {}

\* the pool has been joined: the exception of the failed page leaves map_func
JoinRaise ==
    /\ Active
    /\ Top.pc = "join"
    /\ PoolJoined(Top)
    /\ Raise(Top.resp[Top.collected].err)
    /\ UNCHANGED <<params, params0, time_start, time_end, log, answers, inflight, warned, probed>>
    /\ UNCHANGED <<cnt, style, size, config, enc, looper, fac, call0, nfail, ndrift>>
    /\ UNCHANGED <<ver, tr, columns, win>>

\* StopIteration: map_func returns its results
MapDone ==
    /\ Active
    /\ Top.pc = "pages"
    /\ Top.collected = Top.count_pages
    /\ stack' = SetTop([Top EXCEPT !.pc = "assemble"])
    /\ UNCHANGED <<params, params0, time_start, time_end, log, answers, inflight, outcome,
                   warned, probed>>
    /\ UNCHANGED <<cnt, style, size, config, enc, looper, fac, call0, nfail, ndrift>>
    /\ UNCHANGED <<ver, tr, columns, win>>

\* func of the cursor branch: the GET of one page of the chain
\* variant: the cursor of the previous answer is not put into the parameters
CursorParamsStale(p, cursor) == p
CursorParams(p, cursor) == IF cursor = 0 THEN p ELSE Put(p, "cursor", cursor)

CursorSend ==
    /\ Active
    /\ Top.pc = "cursor"
    /\ log' = Append(log, Request("cursor", CursorParams(params, Top.cursor)))
    /\ answers' = Append(answers, Pending)
    /\ inflight' = inflight \cup {Len(log) + 1}
    /\ stack' = SetTop([Top EXCEPT !.pc = "cursor_wait"])
    /\ UNCHANGED <<params, params0, time_start, time_end, outcome, warned, probed>>
    /\ UNCHANGED <<cnt, style, size, config, enc, looper, fac, call0, nfail, ndrift>>
    /\ UNCHANGED <<ver, tr, columns, win>>

CursorYieldLast(rows, result) == result

\* the page's rows are yielded after those of the pages that follow it
CursorYield(rows, result) == result \o rows

CursorRecv(i) ==
    /\ Active
    /\ Top.pc = "cursor_wait"
    /\ i \in inflight
    /\ inflight' = inflight \ {i}
    /\ answers' = [answers EXCEPT ![i] = Answered(Response(cnt, style, log[i].prm))]
    /\ LET r == Response(cnt, style, log[i].prm)
       IN  stack' = SetTop([Top EXCEPT
               !.rows = CursorYield(Top.rows, r.data),
               !.cursor = r.next,
               !.pc = IF r.next # 0 THEN "cursor" ELSE "assemble"])
    /\ UNCHANGED <<params, params0, time_start, time_end, log, outcome, warned, probed>>
    /\ UNCHANGED <<cnt, style, size, config, enc, looper, fac, call0, nfail, ndrift>>
    /\ UNCHANGED <<ver, tr, columns, win>>

CursorFails(i, kind) ==
    /\ Active
    /\ Top.pc = "cursor_wait"
    /\ i \in inflight
    /\ nfail < MaxFailures
    /\ nfail' = nfail + 1
    /\ inflight' = inflight \ {i}
    /\ answers' = [answers EXCEPT ![i] = Failed(kind)]
    /\ Raise(TransportError(kind, i))
    /\ UNCHANGED <<params, params0, time_start, time_end, log, warned, probed>>
    /\ UNCHANGED <<cnt, style, size, config, enc, looper, fac, call0, ndrift>>
    /\ UNCHANGED <<ver, tr, columns, win>>

\* the table is built and its length compared with the probed count
Mismatch(rows, count_rows) == NRows(rows) # count_rows

Assemble ==
    /\ Active
    /\ Top.pc = "assemble"
    /\ warned' = IF Mismatch(Top.rows, Top.count_rows)
                 THEN Append(warned, [depth |-> Len(stack),
                                      expected |-> Top.count_rows,
                                      got |-> NRows(Top.rows)])
                 ELSE warned
    /\ stack' = SetTop([Top EXCEPT !.pc = "done", !.ret = Top.rows,
                                   !.retcols = FrameColumns(Top.rows)])
    /\ UNCHANGED <<params, params0, time_start, time_end, log, answers, inflight, outcome, probed>>
    /\ UNCHANGED <<cnt, style, size, config, enc, looper, fac, call0, nfail, ndrift>>
    /\ UNCHANGED <<ver, tr, columns, win>>

\* one turn of the loop over the two windows: the dates of the window are
\* written into params and get_result calls itself
LoopStep ==
    /\ Active
    /\ Top.pc = "loop"
    /\ LET window == Top.timeranges[Top.wi]
       IN  IF window = <<>>
           THEN Raise(Error("ValueError", "NaT", 0)) /\ UNCHANGED params
           ELSE /\ params' = Put(Put(params, time_start, window[1]),
                                 time_end, window[Len(window)])
                /\ IF Len(stack) >= RecursionLimit
                   THEN Raise(Error("RecursionError", "recursion", 0))
                   ELSE /\ stack' = Append(SetTop([Top EXCEPT !.pc = "call"]), Frame0)
                        /\ UNCHANGED outcome
    /\ UNCHANGED <<params0, time_start, time_end, log, answers, inflight, warned, probed>>
    /\ UNCHANGED <<cnt, style, size, config, enc, looper, fac, call0, nfail, ndrift>>
    /\ UNCHANGED <<ver, tr, columns, win>>

\* return of an activation: to the client, or into the loop of its caller
\* (results.append, the filter on empty tables, the return on an empty list)
LoopCollect(results, table) == NonEmpty(Append(results, table))

Return ==
    /\ Active
    /\ Top.pc = "done"
    /\ IF Len(stack) = 1
       THEN /\ stack' = <<>>
            /\ outcome' = Returned(Top.ret)
            /\ columns' = Top.retcols
       ELSE LET caller == stack[Len(stack) - 1]
                results == LoopCollect(caller.results, Top.ret)
                rescols == IF NRows(Top.ret) = 0 THEN caller.rescols
                           ELSE caller.rescols \cup DropNa(Top.retcols, Top.ret)
                f == IF results = <<>>
                     THEN [caller EXCEPT !.pc = "done", !.ret = <<>>,
                                         !.results = results,
                                         !.rescols = rescols, !.retcols = {}]
                     ELSE IF caller.wi = 2
                     THEN [caller EXCEPT !.pc = "done", !.ret = Concat(results),
                                         !.results = results,
                                         !.rescols = rescols,
                                         !.retcols = rescols]
                     ELSE [caller EXCEPT !.pc = "loop", !.wi = 2,
                                         !.results = results,
                                         !.rescols = rescols]
            IN  /\ stack' = Append(SubSeq(stack, 1, Len(stack) - 2), f)
                /\ UNCHANGED <<outcome, columns>>
    /\ UNCHANGED <<params, params0, time_start, time_end, log, answers, inflight, warned, probed>>
    /\ UNCHANGED <<cnt, style, size, config, enc, looper, fac, call0, nfail, ndrift>>
    /\ UNCHANGED <<ver, tr, win>>

\* realtime data: a row appears on or disappears from the latest day, seen
\* by the requests that are answered afterwards
Drift(delta) ==
    /\ Active
    /\ inflight # {}
    /\ call0 + 1 \notin inflight
    /\ ndrift < MaxDrifts
    /\ cnt[NDays] + delta >= 0
    /\ cnt' = [cnt EXCEPT ![NDays] = cnt[NDays] + delta]
    /\ ndrift' = ndrift + 1
    /\ UNCHANGED <<style, size, config, enc, looper, fac, nfail>>
    /\ UNCHANGED <<ver, tr, columns, win>>
    /\ UNCHANGED engine_vars

----------------------------------------------------------------------------
(* The facades: a session method pops the keyword arguments it declares into *)
(* params, rejects what is left of kwargs and calls get_result.              *)
(* "date_debut" and "date_fin" stand for the facade's own pair of date       *)
(* arguments, "dummy" for a keyword no endpoint declares.                    *)

HydrobiologySize == 5000
PiezometrySize == 5000
HydrometrySize == 1000
WatercoursesFlowSize == 1000
PhytopharmaceuticalsSize == 1000
GroundWaterQualitySize == 5000
FishSize == 5000

Facades == {
    [name |-> "HydrobiologySession.get_indexes", size |-> HydrobiologySize,
     declared |-> {"date_debut", "date_fin", "code_departement"},
     timed |-> TRUE, check |-> "before", exc |-> "UnexpectedArguments"],
    [name |-> "PiezometrySession.get_stations", size |-> PiezometrySize,
     declared |-> {"code_departement"},
     timed |-> FALSE, check |-> "never", exc |-> ""],
    [name |-> "PiezometrySession.get_chronicles", size |-> PiezometrySize,
     declared |-> {"date_debut", "date_fin", "code_bss"},
     timed |-> FALSE, check |-> "after", exc |-> "ValueError"],
    [name |-> "HydrometrySession.get_stations", size |-> HydrometrySize,
     declared |-> {"code_departement"},
     timed |-> FALSE, check |-> "before", exc |-> "ValueError"],
    [name |-> "HydrometrySession.get_realtime_observations",
     size |-> HydrometrySize,
     declared |-> {"code_entite", "timestep"},
     timed |-> FALSE, check |-> "before", exc |-> "ValueError"],
    [name |-> "WatercoursesFlowSession.get_campagnes",
     size |-> WatercoursesFlowSize,
     declared |-> {"date_debut", "date_fin", "code_departement"},
     timed |-> FALSE, check |-> "before", exc |-> "ValueError"],
    [name |-> "PhytopharmaceuticalsSession.active_substances_bought",
     size |-> PhytopharmaceuticalsSize,
     declared |-> {"type_territoire", "code_territoire", "annee_min", "annee_max"},
     timed |-> FALSE, check |-> "before", exc |-> "UnexpectedArguments"],
    [name |-> "PhytopharmaceuticalsSession.active_substances_sold",
     size |-> PhytopharmaceuticalsSize,
     declared |-> {"type_territoire", "code_territoire", "annee_min", "annee_max"},
     timed |-> FALSE, check |-> "before", exc |-> "UnexpectedArguments"],
    [name |-> "GroundWaterQualitySession.get_analyses",
     size |-> GroundWaterQualitySize,
     declared |-> {"date_debut", "date_fin", "code_departement"},
     timed |-> TRUE, check |-> "before", exc |-> "UnexpectedArguments"],
    [name |-> "WatercoursesFlowSession.get_observations",
     size |-> WatercoursesFlowSize,
     declared |-> {"date_debut", "date_fin", "code_departement"},
     timed |-> FALSE, check |-> "before", exc |-> "UnexpectedArguments"],
    [name |-> "FishSession.get_observations", size |-> FishSize,
     declared |-> {"date_debut", "date_fin", "code_departement"},
     timed |-> FALSE, check |-> "before", exc |-> "UnexpectedArguments"],
    [name |-> "FishSession.get_operations", size |-> FishSize,
     declared |-> {"date_debut", "date_fin", "code_departement"},
     timed |-> FALSE, check |-> "before", exc |-> "UnexpectedArguments"]}

Facade(name) == CHOOSE f \in Facades : f.name = name

NoFacade == [name |-> "", kwargs |-> EmptyDict, pc |-> "none", out |-> Running]
FacadeOf(name, kwargs) ==
    [name |-> name, kwargs |-> kwargs, pc |-> "call", out |-> Running]

\* a date argument that is not written yyyy-MM-dd
BadDate == -2
\* the station hubeau takes when code_bss is missing
DefaultBss == NDays

\* ensure_date_format_is_ok
DateFormatIsOk(date_str) == date_str # BadDate

DateKeys == {"date_debut", "date_fin"}

\* the declared keyword arguments popped into params; get_chronicles sets
\* code_bss itself when it is not given
Popped(kwargs, declared) ==
    LET given == [k \in (DOMAIN kwargs) \cap declared |-> kwargs[k]]
    IN  IF "code_bss" \in declared /\ ~Has(kwargs, "code_bss")
        THEN Put(given, "code_bss", DefaultBss)
        ELSE given
Leftover(kwargs, declared) == (DOMAIN kwargs) \ declared

UnexpectedKwargs(exc) == Error(exc, "unexpected_kwargs", 0)
DateFormatError == Error("ValueError", "date_format", 0)

\* s.split(sep) for a separator that is not empty
RECURSIVE StrSplit(_, _)
StrSplit(s, sep) ==
    LET at == {k \in 1..(Len(s) - Len(sep) + 1) :
                  SubSeq(s, k, k + Len(sep) - 1) = sep}
    IN  IF at = {} THEN <<s>>
        ELSE LET k == CHOOSE i \in at : \A j \in at : i <= j
             IN  <<SubSeq(s, 1, k - 1)>>
                 \o StrSplit(SubSeq(s, k + Len(sep), Len(s)), sep)

\* params["code_entite"]: the codes the client gave, one or two, joined by
\* list_to_str_param (the value of the keyword argument is their number)
CodeEntite(n) == IF n = 1 THEN <<"a">> ELSE <<"a", ",", "b">>

TimestepError == Error("ValueError", "timestep", 0)

\* get_realtime_observations on a timestep: "," is split at the codes, and
\* a split of any length raises; so does the KeyError of a missing
\* code_entite
TimestepRejected(kwargs) ==
    IF ~Has(kwargs, "code_entite") THEN TRUE
    ELSE Len(StrSplit(<<",">>, CodeEntite(kwargs["code_entite"]))) > 0

\* the body of a facade up to its call of get_result
FacadeCall ==
    /\ fac.pc = "call"
    /\ LET d == Facade(fac.name)
           p == Popped(fac.kwargs, d.declared)
       IN  IF /\ fac.name = "HydrometrySession.get_realtime_observations"
              /\ Has(fac.kwargs, "timestep")
              /\ TimestepRejected(fac.kwargs)
           THEN /\ fac' = [fac EXCEPT !.pc = "done",
                               !.out = Raised(TimestepError)]
                /\ UNCHANGED engine_vars
           ELSE IF \E k \in DateKeys \cap d.declared \cap DOMAIN fac.kwargs :
                  ~DateFormatIsOk(fac.kwargs[k])
           THEN /\ fac' = [fac EXCEPT !.pc = "done",
                               !.out = Raised(DateFormatError)]
                /\ UNCHANGED engine_vars
           ELSE IF d.check = "before" /\ Leftover(fac.kwargs, d.declared) # {}
           THEN /\ fac' = [fac EXCEPT !.pc = "done",
                               !.out = Raised(UnexpectedKwargs(d.exc))]
                /\ UNCHANGED engine_vars
           ELSE /\ fac' = [fac EXCEPT !.pc = "run"]
                /\ params' = p
                /\ params0' = p
                /\ time_start' = IF d.timed THEN "date_debut" ELSE ""
                /\ time_end' = IF d.timed THEN "date_fin" ELSE ""
                /\ stack' = <<Frame0>>
                /\ outcome' = Running
                /\ warned' = <<>>
                /\ probed' = -1
                /\ call0' = Len(log)
                /\ UNCHANGED <<log, answers, inflight>>
    /\ UNCHANGED <<cnt, style, size, config, enc, looper, nfail, ndrift>>
    /\ UNCHANGED <<ver, tr, columns, win>>

\* the body of a facade once get_result has returned or raised
FacadeResume ==
    /\ fac.pc = "run"
    /\ stack = <<>>
    /\ outcome.status # "running"
    /\ LET d == Facade(fac.name)
       IN  fac' = [fac EXCEPT !.pc = "done", !.out =
               IF outcome.status = "raised" THEN outcome
               ELSE IF d.check = "after" /\ Leftover(fac.kwargs, d.declared) # {}
               THEN Raised(UnexpectedKwargs(d.exc))
               ELSE outcome]
    /\ UNCHANGED <<cnt, style, size, config, enc, looper, nfail, ndrift>>
    /\ UNCHANGED <<ver, tr, columns, win>>
    /\ UNCHANGED engine_vars

----------------------------------------------------------------------------
(* prepare_kwargs_loops                                                    *)
(* The calendar: a month has MonthLen days and a year 12 months; day 1 is  *)
(* the first day of a year, the date the loopers start from when the       *)
(* client gives none ("1960-01-01"), and "1900-01-01" is the first day of  *)
(* the year before.                                                        *)

MonthLen == 2
YearLen == 12 * MonthLen
AutoStart == 1
Epoch == AutoStart - YearLen
\* date.today()
Today == NDays
MaxDate == (2 * YearLen) + MonthLen

\* pd.date_range(start, end=end, freq=freq) for freq = f"{months}MS" and
\* f"{months//12}YS": the first days of a month (of a year) from start on,
\* one every `months` months, up to end
PeriodStarts(start, end, months) ==
    LET unit == IF months % 12 = 0 THEN YearLen ELSE MonthLen
        first == AutoStart + ((((start - AutoStart) + unit - 1) \div unit) * unit)
        step == months * MonthLen
        n == IF first > end THEN 0 ELSE ((end - first) \div step) + 1
    IN  [j \in 1..n |-> first + ((j - 1) * step)]

\* variant: the window ends on the first day of the next one
ShiftMaxSameDay(ranges, j) == ranges[j + 1]
\* dates["min"].shift(-1) - timedelta(days=1)
ShiftMax(ranges, j) == ranges[j + 1] - 1

\* the frame of the windows: the last one ends at end
Dates(start, end, months) ==
    LET ranges == PeriodStarts(start, end, months)
        n == Len(ranges)
    IN  [j \in 1..n |-> [min |-> ranges[j],
                         max |-> IF j < n THEN ShiftMax(ranges, j) ELSE end]]

\* the windows in the order of their first day: the window from 1900-01-01
\* comes before the others when the start was set by the looper, otherwise
\* the first window starts at start; with no first day of a period in the
\* range, dates.at[dates.index.max(), "max"] adds the only row of the frame
Windows(start, end, start_auto_determination, months) ==
    LET dates == Dates(start, end, months)
    IN  IF start_auto_determination
        THEN <<[min |-> Epoch, max |-> dates[1].min - 1]>> \o dates
        ELSE IF dates = <<>> THEN <<[min |-> start, max |-> end]>>
        ELSE [dates EXCEPT ![1].min = start, ![Len(dates)].max = end]

\* args.merge(pd.Series(territory), how="cross") and the sort on the end of
\* the windows, the latest first; without a territory key the rows carry none
CrossLatestFirst(windows, territory, has_territory) ==
    LET terr == IF has_territory THEN territory ELSE <<EMPTY>>
        nw == Len(windows)
        nt == Len(terr)
    IN  [k \in 1..(nw * nt) |->
            [min |-> windows[nw - ((k - 1) \div nt)].min,
             max |-> windows[nw - ((k - 1) \div nt)].max,
             territory |-> terr[((k - 1) % nt) + 1]]]

prepare_kwargs_loops(start, end, start_auto_determination, months, territory, has_territory) ==
    IF start_auto_determination /\ PeriodStarts(start, end, months) = <<>>
    THEN [status |-> "raised", rows |-> <<>>,
          err |-> Error("TypeError", "strptime", 0)]
    ELSE [status |-> "returned", err |-> NoError,
          rows |-> CrossLatestFirst(
                       Windows(start, end, start_auto_determination, months),
                       territory, has_territory)]

----------------------------------------------------------------------------
(* The convenience functions (loopers) *)

\* get_departements()
DepList == <<1, 2>>

Loopers == {
    [name |-> "watercourses_flow.get_all_campagnes",
     facade |-> "WatercoursesFlowSession.get_campagnes",
     first |-> "try", dedup |-> FALSE, empty_ok |-> FALSE],
    [name |-> "hydrometry.get_all_stations",
     facade |-> "HydrometrySession.get_stations",
     first |-> "deps_call", dedup |-> TRUE, empty_ok |-> TRUE],
    [name |-> "piezometry.get_chronicles",
     facade |-> "PiezometrySession.get_chronicles",
     first |-> "stations_call", dedup |-> FALSE, empty_ok |-> TRUE],
    [name |-> "phytopharmaceuticals_transactions.get_all_active_substances_bought",
     facade |-> "PhytopharmaceuticalsSession.active_substances_bought",
     first |-> "combos_call", dedup |-> FALSE, empty_ok |-> TRUE],
    [name |-> "phytopharmaceuticals_transactions.get_all_active_substances_sold",
     facade |-> "PhytopharmaceuticalsSession.active_substances_sold",
     first |-> "combos_call", dedup |-> FALSE, empty_ok |-> TRUE],
    [name |-> "ground_water_quality.get_all_analyses",
     facade |-> "GroundWaterQualitySession.get_analyses",
     first |-> "windows_call", dedup |-> FALSE, empty_ok |-> TRUE],
    [name |-> "watercourses_flow.get_all_observations",
     facade |-> "WatercoursesFlowSession.get_observations",
     first |-> "windows_call", dedup |-> TRUE, empty_ok |-> FALSE],
    [name |-> "fish.get_all_observations",
     facade |-> "FishSession.get_observations",
     first |-> "windows_call", dedup |-> FALSE, empty_ok |-> FALSE],
    [name |-> "fish.get_all_operations",
     facade |-> "FishSession.get_operations",
     first |-> "windows_call", dedup |-> FALSE, empty_ok |-> FALSE]}

Looper(name) == CHOOSE l \in Loopers : l.name = name

NoLooper == [name |-> "", kwargs |-> EmptyDict, pc |-> "none", i |-> 0,
             results |-> <<>>, codes |-> <<>>, out |-> Running]

\* the departments a station-level looper queries one by one: the list the
\* client gave as code_departement, which the looper pops from its kwargs
\* and keeps (<<>>: none given), or every department
LooperDeps(lp) == IF lp.codes # <<>> THEN lp.codes ELSE DepList

\* the departments get_all_stations queries one by one
DepsOf(kwargs) ==
    IF Has(kwargs, "code_departement") THEN <<kwargs["code_departement"]>>
    ELSE DepList

\* codes_bss["code_bss"].tolist() on the stations left by
\* drop_duplicates("code_bss")
RECURSIVE CodesFrom(_, _)
CodesFrom(kept, t) ==
    IF t = <<>> THEN kept
    ELSE CodesFrom(IF CodeOfDay(Head(t)[1]) \in {kept[k] : k \in 1..Len(kept)}
                   THEN kept ELSE Append(kept, CodeOfDay(Head(t)[1])),
                   Tail(t))

CodesBss(t) == CodesFrom(<<>>, t)

\* the parameters of prepare_kwargs_loops, and the keyword arguments each
\* looper calls it with besides the positional ones
PrepareKwargsLoopsParameters ==
    {"key_start", "key_end", "kwargs", "start_auto_determination", "months"}
KeywordsOf(name) ==
    IF name = "ground_water_quality.get_all_analyses" THEN {}
    ELSE {"split_months"}

\* the call of prepare_kwargs_loops by a looper: the dates the client did
\* not give are set first, then the territories; a keyword argument that is
\* no parameter of the function is a TypeError
LooperWindows(name, kwargs) ==
    LET auto == ~Has(kwargs, "date_debut")
        start == IF auto THEN AutoStart ELSE kwargs["date_debut"]
        end == IF Has(kwargs, "date_fin") THEN kwargs["date_fin"] ELSE Today
        deps == DepsOf(kwargs)
    IN  IF ~(KeywordsOf(name) \subseteq PrepareKwargsLoopsParameters)
        THEN [status |-> "raised", rows |-> <<>>,
              err |-> Error("TypeError", "unexpected_keyword", 0)]
        ELSE prepare_kwargs_loops(start, end, auto, 6, deps, TRUE)

\* the keyword arguments of the facade call for one window and territory
WindowKwargs(kwargs, row) ==
    Put(Put(Put(kwargs, "date_debut", row.min), "date_fin", row.max),
        "code_departement", row.territory)

\* values of type_territoire
National == 1
Departement == 2
\* the first year of the bought and of the sold transactions
FirstYearBought == 2013
FirstYearSold == 2008

\* the transaction get_all_active_substances_bought, _sold hand to
\* _get_all_from_loop
TransactionOf(name) ==
    IF name = "phytopharmaceuticals_transactions.get_all_active_substances_sold"
    THEN "sold" ELSE "bought"

\* variant: range(annee_min, annee_max)
YearsExclusive(annee_min, annee_max) == DateRange(annee_min, annee_max - 1)
\* range(annee_min, annee_max + 1)
Years(annee_min, annee_max) == DateRange(annee_min, annee_max)

\* list(product(code_territoire, years))
Product(xs, ys) ==
    [k \in 1..(Len(xs) * Len(ys)) |->
        <<xs[((k - 1) \div Len(ys)) + 1], ys[((k - 1) % Len(ys)) + 1]>>]

\* _get_territory_years_combination: the territories are the one given, ""
\* for the whole country, or every department; the years run from annee_min
\* (or the first year of the transaction) to annee_max (or the current year)
get_territory_years_combination(kwargs, transaction) ==
    LET type_territoire == IF Has(kwargs, "type_territoire")
                           THEN kwargs["type_territoire"] ELSE National
        given == IF Has(kwargs, "code_territoire")
                 THEN kwargs["code_territoire"] ELSE EMPTY
        code_territoire == IF type_territoire = National \/ given # EMPTY
                           THEN <<given>> ELSE DepList
        annee_max == IF Has(kwargs, "annee_max") THEN kwargs["annee_max"]
                     ELSE ThisYear
        annee_min == IF Has(kwargs, "annee_min") THEN kwargs["annee_min"]
                     ELSE IF transaction = "bought" THEN FirstYearBought
                     ELSE FirstYearSold
    IN  Product(code_territoire, Years(annee_min, annee_max))

\* the keyword arguments of the facade call for one combination
ComboKwargs(kwargs, combo) ==
    LET type_territoire == IF Has(kwargs, "type_territoire")
                           THEN kwargs["type_territoire"] ELSE National
        rest == Del(kwargs, {"type_territoire", "code_territoire",
                             "annee_min", "annee_max"})
    IN  Put(Put(Put(Put(rest, "type_territoire", type_territoire),
                    "code_territoire", combo[1]),
                "annee_min", combo[2]), "annee_max", combo[2])

\* variant: every row is kept
KeepDuplicates(t) == t

\* DataFrame.drop_duplicates on the key of the rows: the first occurrence of
\* each row is kept
SegMinus(s, e) ==
    IF s[1] # e[1] \/ s[3] < e[2] \/ e[3] < s[2] THEN <<s>>
    ELSE (IF s[2] < e[2] THEN <<<<s[1], s[2], e[2] - 1>>>> ELSE <<>>)
         \o (IF e[3] < s[3] THEN <<<<s[1], e[3] + 1, s[3]>>>> ELSE <<>>)

RECURSIVE SegsMinus(_, _)
SegsMinus(ss, e) ==
    IF ss = <<>> THEN <<>> ELSE SegMinus(Head(ss), e) \o SegsMinus(Tail(ss), e)

RECURSIVE SegsMinusAll(_, _)
SegsMinusAll(ss, es) ==
    IF es = <<>> THEN ss ELSE SegsMinusAll(SegsMinus(ss, Head(es)), Tail(es))

RECURSIVE DropDuplicatesFrom(_, _)
DropDuplicatesFrom(kept, t) ==
    IF t = <<>> THEN kept
    ELSE DropDuplicatesFrom(kept \o SegsMinusAll(<<Head(t)>>, kept), Tail(t))

DropDuplicates(t) == DropDuplicatesFrom(<<>>, t)

\* the end of a looper: empty tables are left out and the others concatenated
LooperResult(l, results) ==
    LET kept == NonEmpty(results)
    IN  IF kept = <<>>
        THEN IF l.empty_ok THEN Returned(<<>>)
             ELSE Raised(Error("ValueError", "concat", 0))
        ELSE Returned(IF l.dedup THEN DropDuplicates(Concat(kept))
                      ELSE Concat(kept))

\* the looper calls the facade: with its own kwargs, or for one department;
\* get_chronicles first asks get_stations for the stations of each
\* department, then calls the facade for one code_bss after the other
LooperCall ==
    /\ looper.pc \in {"start", "deps_call", "stations_call", "codes_call",
                     "combos_call", "windows_call"}
    /\ fac.pc \in {"none", "done"}
    /\ LET l == Looper(looper.name)
           pc == IF looper.pc = "start" THEN l.first ELSE looper.pc
       IN  IF pc = "try"
           THEN /\ fac' = FacadeOf(l.facade, looper.kwargs)
                /\ looper' = [looper EXCEPT !.pc = "try"]
           ELSE IF pc = "stations_call"
           THEN /\ fac' = FacadeOf("PiezometrySession.get_stations",
                               Put(EmptyDict, "code_departement",
                                   DepsOf(looper.kwargs)[looper.i + 1]))
                /\ looper' = [looper EXCEPT !.pc = "stations_wait",
                                            !.i = looper.i + 1]
           ELSE IF pc = "combos_call"
           THEN LET combos == get_territory_years_combination(
                                  looper.kwargs, TransactionOf(looper.name))
                IN  IF combos = <<>>
                    THEN /\ looper' = [looper EXCEPT !.pc = "done",
                                            !.out = LooperResult(l, <<>>)]
                         /\ UNCHANGED fac
                    ELSE /\ fac' = FacadeOf(l.facade, ComboKwargs(
                                        looper.kwargs, combos[looper.i + 1]))
                         /\ looper' = [looper EXCEPT !.pc = "combos_wait",
                                            !.i = looper.i + 1,
                                            !.codes = combos]
           ELSE IF pc = "windows_call"
           THEN LET r == LooperWindows(looper.name, looper.kwargs)
                IN  IF r.status = "raised"
                    THEN /\ looper' = [looper EXCEPT !.pc = "done",
                                            !.out = Raised(r.err)]
                         /\ UNCHANGED fac
                    ELSE /\ fac' = FacadeOf(l.facade, WindowKwargs(
                                        looper.kwargs, r.rows[looper.i + 1]))
                         /\ looper' = [looper EXCEPT !.pc = "windows_wait",
                                            !.i = looper.i + 1,
                                            !.codes = r.rows]
           ELSE IF pc = "codes_call"
           THEN /\ fac' = FacadeOf(l.facade,
                               Put(Del(looper.kwargs, {"code_departement"}),
                                   "code_bss", looper.codes[looper.i + 1]))
                /\ looper' = [looper EXCEPT !.pc = "codes_wait",
                                            !.i = looper.i + 1]
           ELSE /\ fac' = FacadeOf(l.facade, Put(looper.kwargs,
                               "code_departement", LooperDeps(looper)[looper.i + 1]))
                /\ looper' = [looper EXCEPT !.pc = "deps_wait",
                                            !.i = looper.i + 1]
    /\ UNCHANGED <<cnt, style, size, config, enc, nfail, ndrift>>
    /\ UNCHANGED <<ver, tr, columns, win>>
    /\ UNCHANGED engine_vars

\* the facade has returned or raised; get_all_campagnes catches ValueError
\* around its first call and then queries department by department
CatchesValueError(err) == IsValueError(err)

LooperResume ==
    /\ looper.pc \in {"try", "deps_wait", "stations_wait", "codes_wait",
                     "combos_wait", "windows_wait"}
    /\ fac.pc = "done"
    /\ LET l == Looper(looper.name)
           r == fac.out
       IN  IF looper.pc = "try"
           THEN IF r.status = "returned"
                THEN looper' = [looper EXCEPT !.pc = "done", !.out = r]
                ELSE IF CatchesValueError(r.err)
                THEN looper' = [looper EXCEPT !.pc = "deps_call", !.i = 0]
                ELSE looper' = [looper EXCEPT !.pc = "done", !.out = r]
           ELSE IF looper.pc = "stations_wait"
           THEN IF r.status = "raised"
                THEN looper' = [looper EXCEPT !.pc = "done", !.out = r]
                ELSE LET results == Append(looper.results, r.table)
                         kept == NonEmpty(results)
                     IN  IF looper.i < Len(DepsOf(looper.kwargs))
                         THEN looper' = [looper EXCEPT !.pc = "stations_call",
                                                       !.results = results]
                         ELSE IF kept = <<>>
                         THEN looper' = [looper EXCEPT !.pc = "done",
                                  !.results = results,
                                  !.out = Raised(Error("KeyError", "code_bss", 0))]
                         ELSE looper' = [looper EXCEPT !.pc = "codes_call",
                                  !.i = 0, !.results = <<>>,
                                  !.codes = CodesBss(Concat(kept))]
           ELSE IF looper.pc \in {"codes_wait", "combos_wait", "windows_wait"}
           THEN IF r.status = "raised"
                THEN looper' = [looper EXCEPT !.pc = "done", !.out = r]
                ELSE LET results == Append(looper.results, r.table)
                     IN  IF looper.i < Len(looper.codes)
                         THEN looper' = [looper EXCEPT !.pc =
                                  IF looper.pc = "codes_wait" THEN "codes_call"
                                  ELSE IF looper.pc = "combos_wait"
                                  THEN "combos_call" ELSE "windows_call",
                                                       !.results = results]
                         ELSE looper' = [looper EXCEPT !.pc = "done",
                                             !.results = results,
                                             !.out = LooperResult(l, results)]
           ELSE IF r.status = "raised"
                THEN looper' = [looper EXCEPT !.pc = "done", !.out = r]
                ELSE LET results == Append(looper.results, r.table)
                     IN  IF looper.i < Len(LooperDeps(looper))
                         THEN looper' = [looper EXCEPT !.pc = "deps_call",
                                                       !.results = results]
                         ELSE looper' = [looper EXCEPT !.pc = "done",
                                             !.results = results,
                                             !.out = LooperResult(l, results)]
    /\ UNCHANGED <<cnt, style, size, config, enc, fac, nfail, ndrift>>
    /\ UNCHANGED <<ver, tr, columns, win>>
    /\ UNCHANGED engine_vars

----------------------------------------------------------------------------
(* list_to_str_param                                                       *)
(* A Python str is the sequence of its characters; a value is a record of  *)
(* its type t, of s: its characters for a str, the characters of str(x)    *)
(* for an int, and of its items in iteration order for a list, tuple, set. *)

Str(s) == [t |-> "str", s |-> s, items |-> <<>>]
PyInt(s) == [t |-> "int", s |-> s, items |-> <<>>]
Coll(t, items) == [t |-> t, s |-> <<>>, items |-> items]
None == [t |-> "NoneType", s |-> <<>>, items |-> <<>>]

\* str(y)
PyStr(y) == Str(y.s)

RECURSIVE LStrip(_)
LStrip(s) == IF s # <<>> /\ Head(s) = " " THEN LStrip(Tail(s)) ELSE s

RECURSIVE RStrip(_)
RStrip(s) == IF s # <<>> /\ s[Len(s)] = " "
             THEN RStrip(SubSeq(s, 1, Len(s) - 1)) ELSE s

\* str.strip()
Strip(s) == RStrip(LStrip(s))

\* s.split(","): "" gives [""]
RECURSIVE Split(_)
Split(s) ==
    IF \A k \in 1..Len(s) : s[k] # "," THEN <<s>>
    ELSE LET k == CHOOSE i \in 1..Len(s) :
                      s[i] = "," /\ \A j \in 1..(i - 1) : s[j] # ","
         IN  <<SubSeq(s, 1, k - 1)>> \o Split(SubSeq(s, k + 1, Len(s)))

\* ",".join(strs)
RECURSIVE Join(_)
Join(strs) ==
    IF strs = <<>> THEN <<>>
    ELSE IF Len(strs) = 1 THEN strs[1]
    ELSE strs[1] \o <<",">> \o Join(Tail(strs))

\* [str(y) for y in q]
StrEach(q) == [k \in 1..Len(q) |-> PyStr(q[k])]
Range(q) == {q[k] : k \in 1..Len(q)}

EncOk(s) == [ok |-> TRUE, v |-> s, err |-> NoError, violation |-> <<>>]
EncError(what, violation) ==
    [ok |-> FALSE, v |-> <<>>, err |-> Error("ValueError", what, 0),
     violation |-> violation]

\* [str(y) for y in x if y not in authorized_values]
Violation(items, authorized) ==
    StrEach(SelectSeq(items, LAMBDA y : y \notin authorized))

\* the branch of list_to_str_param for a list, tuple or set (0 is None for
\* max_authorized_values and exact_authorized_values)
JoinChecked(items, max_authorized_values, exact_authorized_values, authorized_values) ==
    IF max_authorized_values # 0 /\ Len(items) > max_authorized_values
    THEN EncError("max", <<>>)
    ELSE IF exact_authorized_values # 0
            /\ Len(items) # exact_authorized_values
    THEN EncError("exact", <<>>)
    ELSE IF authorized_values.t # "NoneType" /\ authorized_values.items # <<>>
            /\ Violation(items, Range(StrEach(authorized_values.items))) # <<>>
    THEN EncError("unauthorized",
             Violation(items, Range(StrEach(authorized_values.items))))
    ELSE EncOk(Join([k \in 1..Len(items) |-> items[k].s]))

\* x.split(",") with every token stripped
Tokens(s) == [k \in 1..Len(Split(s)) |-> Str(Strip(Split(s)[k]))]

\* variant: a scalar that is not a str is taken as a list of one item
list_to_str_param_scalar(x, max_authorized_values, exact_authorized_values, authorized_values) ==
    IF x.t = "str"
    THEN JoinChecked(Tokens(x.s), max_authorized_values,
                     exact_authorized_values, authorized_values)
    ELSE IF x.t \in {"list", "tuple", "set"}
    THEN JoinChecked(x.items, max_authorized_values,
                     exact_authorized_values, authorized_values)
    ELSE IF x.t = "int"
    THEN JoinChecked(<<x>>, max_authorized_values,
                     exact_authorized_values, authorized_values)
    ELSE EncError("unexpected_format", <<>>)
list_to_str_param(x, max_authorized_values, exact_authorized_values, authorized_values) ==
    IF x.t = "str"
    THEN JoinChecked(Tokens(x.s), max_authorized_values,
                     exact_authorized_values, authorized_values)
    ELSE IF x.t \in {"list", "tuple", "set"}
    THEN JoinChecked(x.items, max_authorized_values,
                     exact_authorized_values, authorized_values)
    ELSE EncError("unexpected_format", <<>>)

NoEnc == [pc |-> "none", x |-> None, max |-> 0, exact |-> 0,
          authorized |-> None, out |-> EncOk(<<>>), again |-> EncOk(<<>>)]

\* the client calls list_to_str_param
Encode ==
    /\ enc.pc = "call"
    /\ enc' = [enc EXCEPT !.pc = "once",
                  !.out = list_to_str_param(enc.x, enc.max, enc.exact,
                                            enc.authorized)]
    /\ UNCHANGED <<cnt, style, size, config, looper, fac, nfail, ndrift>>
    /\ UNCHANGED <<ver, tr, columns, win>>
    /\ UNCHANGED engine_vars

\* the client calls list_to_str_param on the string it got
EncodeAgain ==
    /\ enc.pc = "once"
    /\ enc.out.ok
    /\ enc' = [enc EXCEPT !.pc = "twice",
                  !.again = list_to_str_param(Str(enc.out.v), enc.max,
                                              enc.exact, enc.authorized)]
    /\ UNCHANGED <<cnt, style, size, config, looper, fac, nfail, ndrift>>
    /\ UNCHANGED <<ver, tr, columns, win>>
    /\ UNCHANGED engine_vars

----------------------------------------------------------------------------
(* request: one GET through the adapter mounted with                       *)
(* Retry(10, backoff_factor=1, status_forcelist=[500, 502, 503, 504]).     *)
(* What the arguments leave unset is urllib3's default: GET is a method    *)
(* that may be retried, respect_retry_after_header is True with            *)
(* RETRY_AFTER_STATUS_CODES = {413, 429, 503}, the backoff is capped at    *)
(* 120 seconds and exhausted retries raise (requests: RetryError).         *)

RetryTotal == 10
BackoffFactor == 1
BackoffMax == 120
StatusForcelist == {500, 502, 503, 504}
RetryAfterStatusCodes == {413, 429, 503}

\* the statuses the server answers an attempt with
Statuses == {200, 404, 429, 500, 503}

RECURSIVE Pow2(_)
Pow2(n) == IF n = 0 THEN 1 ELSE 2 * Pow2(n - 1)

\* Retry.get_backoff_time after n consecutive errors
Backoff(n) == IF n <= 1 THEN 0 ELSE Min(BackoffMax, BackoffFactor * Pow2(n - 1))

\* Retry.is_retry for a GET
IsRetry(total, status, has_retry_after) ==
    \/ status \in StatusForcelist
    \/ total # 0 /\ has_retry_after /\ status \in RetryAfterStatusCodes

\* r.ok
Ok(status) == status < 400

NoTr == [pc |-> "none", attempts |-> 0, total |-> 0, status |-> 0,
         retried |-> {}, waits |-> <<>>, out |-> ""]
NewTr == [NoTr EXCEPT !.pc = "send", !.total = RetryTotal]

\* the server answers an attempt: the adapter sends again after its wait, or
\* gives up, or hands the response to request, which raises ValueError
\* unless r.ok
Attempt(status, has_retry_after) ==
    /\ tr.pc = "send"
    /\ LET n == tr.attempts + 1
       IN  IF IsRetry(tr.total, status, has_retry_after)
           THEN IF tr.total - 1 < 0
                THEN tr' = [tr EXCEPT !.pc = "done", !.attempts = n,
                               !.status = status, !.out = "RetryError"]
                ELSE tr' = [tr EXCEPT !.attempts = n, !.total = @ - 1,
                               !.status = status,
                               !.retried = @ \cup {status},
                               !.waits = Append(@,
                                   IF has_retry_after
                                      /\ status \in RetryAfterStatusCodes
                                   THEN [by |-> "Retry-After", s |-> 0]
                                   ELSE [by |-> "backoff", s |-> Backoff(n)])]
           ELSE tr' = [tr EXCEPT !.pc = "done", !.attempts = n,
                          !.status = status,
                          !.out = IF Ok(status) THEN "response"
                                  ELSE "ValueError"]
    /\ UNCHANGED <<cnt, style, size, config, enc, looper, fac, nfail, ndrift>>
    /\ UNCHANGED <<ver, columns, win>>
    /\ UNCHANGED engine_vars

----------------------------------------------------------------------------
(* A call of prepare_kwargs_loops on its own *)

NoWin == [pc |-> "none", start |-> 0, end |-> 0, auto |-> FALSE, months |-> 0,
          territory |-> <<>>, has_territory |-> FALSE,
          out |-> [status |-> "", rows |-> <<>>, err |-> NoError]]

PrepareLoops ==
    /\ win.pc = "call"
    /\ win' = [win EXCEPT !.pc = "done", !.out =
                  prepare_kwargs_loops(win.start, win.end, win.auto, win.months,
                                       win.territory, win.has_territory)]
    /\ UNCHANGED <<cnt, style, size, config, enc, looper, fac, nfail, ndrift>>
    /\ UNCHANGED <<ver, tr, columns>>
    /\ UNCHANGED engine_vars

----------------------------------------------------------------------------
(* The client calls get_result itself, a facade, or a looper *)

\* the dict of the keys given (0: key not given)
DictOf(p) == [k \in {x \in DOMAIN p : p[x] # 0} |-> p[k]]

EngineParams ==
    {DictOf(p) : p \in
        {q \in [date_debut : Days \cup {0}, date_fin : Days \cup {0},
                code_departement : {0, EMPTY}] :
            /\ (q.date_debut # 0 /\ q.date_fin # 0) => q.date_debut <= q.date_fin
            /\ q.code_departement # 0 => (q.date_debut = 0 /\ q.date_fin = 0)}}

FacadeKwargs ==
    {DictOf(p) : p \in
        {q \in [date_debut : {0, 1}, date_fin : {0, NDays},
                code_departement : {0, 1}, dummy : {0, 1}] :
            q.date_debut # 0 => q.date_fin # 0}}

LooperKwargs == {DictOf(p) : p \in [dummy : {0, 1}]}

\* the keyword arguments given to piezometry.get_chronicles: a department
\* or none, a first date well or badly written or none
ChroniclesKwargs ==
    {DictOf(p) : p \in [code_departement : {0, 1}, date_debut : {0, 1, BadDate}]}

\* the keyword arguments given to the phytopharmaceuticals loopers: the
\* whole country or the departments, one of them or all, the years bounded
\* or not
PhytopharmaceuticalsKwargs ==
    {DictOf(p) : p \in
        {q \in [type_territoire : {0, Departement}, code_territoire : {0, 1},
                annee_min : {0, ThisYear}, annee_max : {0, ThisYear - 1}] :
            q.code_territoire # 0 => q.type_territoire # 0}}

\* the keyword arguments given to the loopers on windows of months: the
\* two dates or none, a department or none
WindowsKwargs ==
    {DictOf(p) : p \in
        {q \in [date_debut : {0, 1}, date_fin : {0, NDays},
                code_departement : {0, 1}] :
            (q.date_debut = 0) = (q.date_fin = 0)}}

LooperKwargsOf(l) ==
    IF l.first = "stations_call" THEN ChroniclesKwargs
    ELSE IF l.first = "combos_call" THEN PhytopharmaceuticalsKwargs
    ELSE IF l.first = "windows_call" THEN WindowsKwargs
    ELSE LooperKwargs

\* the values handed to list_to_str_param: strings with and without commas
\* and blanks, an int, collections of such items, and values of other types
EncStrings == {<<>>, <<"a">>, <<" ", "a">>, <<"a", ",", "b">>,
               <<"a", ",", " ", "b">>}
EncItems == {Str(<<"a">>), Str(<<"b">>), Str(<<" ", "a">>),
             Str(<<"a", ",", "b">>), PyInt(<<"1">>)}
EncSeqs == UNION {[1..n -> EncItems] : n \in 0..MaxItems}
EncValues ==
    {Str(s) : s \in EncStrings} \cup {PyInt(<<"1">>), None}
    \cup {Coll(t, q) : t \in {"list", "tuple"}, q \in EncSeqs}
    \cup {Coll("set", q) : q \in {r \in EncSeqs :
                                     \A k, l \in 1..Len(r) : r[k] = r[l] => k = l}}
EncAuthorized == {None, Coll("list", <<Str(<<"a">>), Str(<<"b">>)>>),
                  Coll("list", <<PyInt(<<"1">>), Str(<<"a">>)>>)}

\* a facade expects a version of its API; the server reports that version,
\* another one, or none
Versions ==
    {[NoVer EXCEPT !.version = 1, !.api_version = a, !.filter = f] :
        <<a, f>> \in {<<1, "default">>, <<0, "default">>, <<2, "default">>,
                      <<2, "always">>}}

InitRun ==
    /\ log = <<>>
    /\ columns = {}
    /\ answers = <<>>
    /\ call0 = 0
    /\ inflight = {}
    /\ outcome = Running
    /\ warned = <<>>
    /\ probed = -1
    /\ nfail = 0
    /\ ndrift = 0
    /\ style \in {"page", "cursor"}

InitEngine ==
    /\ ver = NoVer
    /\ tr = NoTr
    /\ win = NoWin
    /\ cnt \in Stores
    /\ size \in Sizes
    /\ enc = NoEnc
    /\ looper = NoLooper
    /\ fac = NoFacade
    /\ params \in EngineParams
    /\ config \in [THREADS : IF style = "page" /\ params = EmptyDict
                             THEN ThreadCaps ELSE {THREADS}]
    /\ params0 = params
    /\ \E timed \in BOOLEAN :
          /\ time_start = IF timed THEN "date_debut" ELSE ""
          /\ time_end = IF timed THEN "date_fin" ELSE ""
    /\ stack = <<Frame0>>

\* the facades the client calls itself
ClientFacades == {"HydrobiologySession.get_indexes",
                  "PiezometrySession.get_stations",
                  "PiezometrySession.get_chronicles",
                  "HydrometrySession.get_realtime_observations"}

\* the keyword arguments given to get_realtime_observations: no code, one
\* or two, with or without a timestep
RealtimeKwargs ==
    {DictOf(p) : p \in [code_entite : {0, 1, 2}, timestep : {0, 10},
                         dummy : {0, 1}]}

InitFacade ==
    /\ tr = NoTr
    /\ win = NoWin
    /\ looper = NoLooper
    /\ \E f \in {g \in Facades : g.name \in ClientFacades} :
          LET realtime == f.name = "HydrometrySession.get_realtime_observations"
          IN  /\ \E kw \in IF realtime THEN RealtimeKwargs ELSE FacadeKwargs :
                     fac = FacadeOf(f.name, kw)
              /\ cnt \in {c \in IF realtime THEN [Days -> LooperCounts] ELSE Stores :
                             \A d \in Days : d < NDays => c[d] = 0}
              /\ size = f.size
              /\ ver \in IF realtime
                         THEN {v \in Versions : v.api_version = v.version}
                         ELSE Versions
    /\ config = [THREADS |-> THREADS]
    /\ enc = NoEnc
    /\ params = EmptyDict
    /\ params0 = EmptyDict
    /\ time_start = ""
    /\ time_end = ""
    /\ stack = <<>>

\* the lists of departments given to a looper that merges on the key of the
\* rows: none, or a list that names a department twice
LooperDepLists(l) ==
    IF l.first = "deps_call" THEN {<<>>, <<1, 1>>, <<2, 1, 2>>} ELSE {<<>>}

InitLooper ==
    /\ tr = NoTr
    /\ win = NoWin
    /\ cnt \in [Days -> LooperCounts]
    /\ \E l \in Loopers : \E kw \in LooperKwargsOf(l), ds \in LooperDepLists(l) :
          /\ looper = [NoLooper EXCEPT !.name = l.name, !.kwargs = kw,
                                       !.pc = "start", !.codes = ds]
          /\ size = Facade(l.facade).size
          /\ ver \in IF l.first \in {"combos_call", "windows_call"}
                     THEN {v \in Versions : v.api_version = v.version}
                     ELSE Versions
    /\ config = [THREADS |-> THREADS]
    /\ enc = NoEnc
    /\ fac = NoFacade
    /\ params = EmptyDict
    /\ params0 = EmptyDict
    /\ time_start = ""
    /\ time_end = ""
    /\ stack = <<>>

InitEncode ==
    /\ ver = NoVer
    /\ tr = NoTr
    /\ win = NoWin
    /\ style = "page"
    /\ cnt = [d \in Days |-> 0]
    /\ size = HydrometrySize
    /\ config = [THREADS |-> THREADS]
    /\ looper = NoLooper
    /\ fac = NoFacade
    /\ params = EmptyDict
    /\ params0 = EmptyDict
    /\ time_start = ""
    /\ time_end = ""
    /\ stack = <<>>
    /\ \E x \in EncValues, max \in 0..MaxItems, exact \in 0..MaxItems,
          authorized \in EncAuthorized :
          enc = [NoEnc EXCEPT !.pc = "call", !.x = x, !.max = max,
                              !.exact = exact, !.authorized = authorized]

InitRequest ==
    /\ ver = NoVer
    /\ tr = NewTr
    /\ win = NoWin
    /\ enc = NoEnc
    /\ style = "page"
    /\ cnt = [d \in Days |-> 0]
    /\ size = HydrometrySize
    /\ config = [THREADS |-> THREADS]
    /\ looper = NoLooper
    /\ fac = NoFacade
    /\ params = EmptyDict
    /\ params0 = EmptyDict
    /\ time_start = ""
    /\ time_end = ""
    /\ stack = <<>>

\* the calls of prepare_kwargs_loops: any period start <= end in windows of
\* 4, 6 or 12 months, or a period from the looper's own start; no territory
\* key, one territory or two
InitWindows ==
    /\ ver = NoVer
    /\ tr = NoTr
    /\ enc = NoEnc
    /\ style = "page"
    /\ cnt = [d \in Days |-> 0]
    /\ size = HydrometrySize
    /\ config = [THREADS |-> THREADS]
    /\ looper = NoLooper
    /\ fac = NoFacade
    /\ params = EmptyDict
    /\ params0 = EmptyDict
    /\ time_start = ""
    /\ time_end = ""
    /\ stack = <<>>
    /\ \E start \in AutoStart..MaxDate, end \in AutoStart..MaxDate,
          auto \in BOOLEAN, months \in {4, 6, 12},
          territory \in {<<>>, <<1>>, <<1, 2>>} :
          /\ start <= end
          /\ auto => start = AutoStart
          /\ win = [NoWin EXCEPT !.pc = "call", !.start = start, !.end = end,
                                 !.auto = auto, !.months = months,
                                 !.territory = territory,
                                 !.has_territory = (territory # <<>>)]

Init ==
    InitRun /\ (InitEngine \/ InitFacade \/ InitLooper \/ InitEncode
                \/ InitRequest \/ InitWindows)

Next ==
    \/ ProbeSend
    \/ \E i \in inflight : ProbeRecv(i)
    \/ \E i \in inflight, kind \in FailKinds : ProbeFails(i, kind)
    \/ WorkerStart
    \/ \E i \in inflight : WorkerFinish(i)
    \/ \E i \in inflight, kind \in FailKinds : WorkerFails(i, kind)
    \/ Collect
    \/ JoinRaise
    \/ MapDone
    \/ CursorSend
    \/ \E i \in inflight : CursorRecv(i)
    \/ \E i \in inflight, kind \in FailKinds : CursorFails(i, kind)
    \/ Assemble
    \/ LoopStep
    \/ Return
    \/ \E delta \in DriftDeltas : Drift(delta)
    \/ FacadeCall
    \/ FacadeResume
    \/ LooperCall
    \/ LooperResume
    \/ Encode
    \/ EncodeAgain
    \/ \E status \in Statuses, has_retry_after \in BOOLEAN :
          Attempt(status, has_retry_after)
    \/ PrepareLoops

Spec == Init /\ [][Next]_vars

----------------------------------------------------------------------------
(* Observations on a run, used to state the properties *)

\* the requests of the current call of get_result, as indexes in log
CallIdx == (call0 + 1)..Len(log)
OfKind(kind) == {i \in CallIdx : log[i].kind = kind}
FailedIdx == {i \in CallIdx : answers[i].st = "failed"}

\* ceil(n / p), from its definition
Ceil(n, p) == CHOOSE k \in 0..((n \div p) + 1) : (k - 1) * p < n /\ n <= k * p

\* the query get_result was called with, as the server reads it
Query == Del(params0, {k \in DOMAIN params0 : params0[k] = EMPTY})
HasBounds == Has(Query, "date_debut") /\ Has(Query, "date_fin")

----------------------------------------------------------------------------
\* C1: on a page-indexed endpoint whose probe reports 0 < N <= 20,000 rows,
\* a call of get_result that returns has issued, after the probe, exactly
\* ceil(N / size) page requests, one for each page number 1..ceil(N / size),
\* each with the session's page size, and nothing else; if the server's data
\* did not change meanwhile the table has exactly N rows.
C1_PageRequests ==
    (/\ outcome.status = "returned"
     /\ style = "page"
     /\ probed > 0
     /\ probed <= HUBEAU_MAX_ROWS)
    => /\ CallIdx = {call0 + 1} \cup OfKind("page")
       /\ Cardinality(OfKind("page")) = Ceil(probed, size)
       /\ \A x \in 1..Ceil(probed, size) :
             Cardinality({i \in OfKind("page") :
                 log[i].prm["page"] = x /\ log[i].prm["size"] = size}) = 1
       /\ (ndrift = 0 => NRows(outcome.table) = probed)

\* a call that fetched 12,000 rows in three pages of 5,000
C1_Witness ==
    /\ outcome.status = "returned"
    /\ style = "page"
    /\ probed = 12000
    /\ size = 5000
    /\ ndrift = 0
    /\ Cardinality(OfKind("page")) = 3
    /\ NRows(outcome.table) = 12000

----------------------------------------------------------------------------
\* the two half-intervals of the query's interval of dates, and the queries
\* on them
HalfEnd == Query["date_debut"]
           + ((Query["date_fin"] - Query["date_debut"] + 2) \div 2) - 1
HalfQuery(h) ==
    IF h = 1 THEN Put(Query, "date_fin", HalfEnd)
    ELSE Put(Query, "date_debut", HalfEnd + 1)
HalfCount(h) == ServerCount(cnt, HalfQuery(h))
HalfProbes(h) == {i \in OfKind("probe") : i > call0 + 1
                     /\ log[i].prm = Put(HalfQuery(h), "size", 1)}

\* every row of the server that query q selects is in table t, once
RowsOnce(t, q) ==
    /\ \A d \in Days :
          NRows(SelectSeq(t, LAMBDA sg : sg[1] = d))
              = IF Matches(q, d) THEN cnt[d] ELSE 0
    /\ \A k \in 1..Len(t) : t[k][2] >= 1 /\ t[k][3] <= cnt[t[k][1]]
    /\ \A k, l \in 1..Len(t) :
          (k < l /\ t[k][1] = t[l][1]) => (t[k][3] < t[l][2] \/ t[l][3] < t[k][2])

\* C2: when the probe of a query with both date bounds reports more than
\* 20,000 rows and the server reports at most 20,000 rows for each half of
\* the interval, a call of get_result that returns has run one probe and
\* fetch cycle per half, two in all, and its table is the first half's rows
\* followed by the second half's, every row of a half being there once if
\* the server's data did not change meanwhile.
C2_Bisection ==
    (/\ outcome.status = "returned"
     /\ probed > HUBEAU_MAX_ROWS
     /\ HasBounds
     /\ \A h \in {1, 2} :
           /\ HalfCount(h) <= HUBEAU_MAX_ROWS
           /\ \A i \in HalfProbes(h) : answers[i].count <= HUBEAU_MAX_ROWS)
    => /\ Cardinality(OfKind("probe")) = 3
       /\ \A h \in {1, 2} : Cardinality(HalfProbes(h)) = 1
       /\ \A i \in CallIdx : log[i].kind # "probe" => log[i].depth = 2
       /\ \A k, l \in 1..Len(outcome.table) :
             (outcome.table[k][1] <= HalfEnd /\ outcome.table[l][1] > HalfEnd)
             => k < l
       /\ (ndrift = 0 => RowsOnce(outcome.table, Query))

----------------------------------------------------------------------------
\* C3: on a cursor-indexed endpoint (the probe reporting at most 20,000
\* rows) the requests after the probe are one chain: never more than one
\* request in flight, the first without a cursor, each later one sent once
\* the one before it was answered with a next link and carrying the cursor
\* of that answer; a call that returns has ended the chain on the first
\* answer without a next link, after exactly as many requests as the server
\* serves pages (ceil(N / size), and one page when there is no row).
C3_CursorChain ==
    (style = "cursor" /\ probed >= 0 /\ probed <= HUBEAU_MAX_ROWS)
    => /\ Cardinality(inflight) <= 1
       /\ CallIdx = {call0 + 1} \cup OfKind("cursor")
       /\ \A i \in OfKind("cursor") :
             /\ log[i].prm["size"] = size
             /\ IF i = call0 + 2
                THEN ~Has(log[i].prm, "cursor")
                ELSE /\ answers[i - 1].st = "ok"
                     /\ answers[i - 1].next # 0
                     /\ Has(log[i].prm, "cursor")
                     /\ log[i].prm["cursor"] = answers[i - 1].next
       /\ outcome.status = "returned"
          => /\ OfKind("cursor") # {}
             /\ answers[Len(log)].st = "ok"
             /\ answers[Len(log)].next = 0
             /\ (ndrift = 0 =>
                   Cardinality(OfKind("cursor")) = Max(1, Ceil(probed, size)))

\* a call that followed a chain of three pages to its end
C3_Witness ==
    /\ outcome.status = "returned"
    /\ style = "cursor"
    /\ probed = 12000
    /\ size = 5000
    /\ Cardinality(OfKind("cursor")) = 3
    /\ Has(log[Len(log)].prm, "cursor")
    /\ log[Len(log)].prm["cursor"] = answers[Len(log) - 1].next

----------------------------------------------------------------------------
\* C4: whenever the probe reports more than 20,000 rows and the query has
\* not both date bounds, get_result ends by raising the ValueError "this
\* request won't be handled by hubeau", having issued the probe and no other
\* request and returning no table, whether or not the caller of get_result
\* named the date parameters.
C4_TooLarge ==
    (/\ outcome.status # "running"
     /\ probed > HUBEAU_MAX_ROWS
     /\ ~HasBounds)
    => /\ outcome = Raised(Error("ValueError", "too_large", 0))
       /\ CallIdx = {call0 + 1}

\* C5: when get_result returns, a table whose number of rows differs from
\* the probed count comes with a warning on the count, and a table with the
\* probed number of rows comes with no such warning of the call.
C5_MismatchWarning ==
    outcome.status = "returned"
    => /\ NRows(outcome.table) # probed
          => \E k \in 1..Len(warned) : warned[k].got = NRows(outcome.table)
       /\ NRows(outcome.table) = probed
          => \A k \in 1..Len(warned) : warned[k].depth # 1

\* C6: a facade called with a keyword argument it does not declare issues
\* no request, the probe included, and ends by raising its error on the
\* unexpected arguments.
C6_UndeclaredKwarg ==
    (fac.name # "" /\ Leftover(fac.kwargs, Facade(fac.name).declared) # {})
    => /\ looper.name = "" => log = <<>>
       /\ fac.pc = "done"
          => /\ fac.out.status = "raised"
             /\ fac.out.err.what = "unexpected_kwargs"

\* C7: when the probe reports no row, get_result returns an empty table and
\* the probe is the only request it has issued, on page-indexed and on
\* cursor-indexed endpoints.
C7_ZeroRows ==
    (probed = 0 /\ style \in {"page", "cursor"})
    => /\ CallIdx = {call0 + 1}
       /\ outcome.status # "running" => outcome = Returned(<<>>)

\* C8: when get_result has returned or raised, the params mapping of its
\* caller holds the keys and values it held at the call.
C8_ParamsUntouched ==
    outcome.status # "running" => params = params0

\* C9: a request of get_result that fails ends the call with that failure:
\* a call that returns a table has had no failed request, a call that ended
\* after a failed request raised the exception of one of its failed
\* requests as the request raised it, and no request issued after a failed
\* one repeats it.
C9_FailurePropagates ==
    /\ outcome.status = "returned" => FailedIdx = {}
    /\ (stack = <<>> /\ FailedIdx # {})
       => /\ outcome.status = "raised"
          /\ outcome.err.req \in FailedIdx
          /\ outcome.err = Error(answers[outcome.err.req].exc, "transport",
                                 outcome.err.req)
    /\ \A i \in FailedIdx : \A j \in CallIdx :
          j > i => (log[j].kind # log[i].kind \/ log[j].prm # log[i].prm)

\* a call raised the failure of one page after other pages had been fetched
C9_Witness ==
    /\ outcome.status = "raised"
    /\ outcome.err.what = "transport"
    /\ \E i \in FailedIdx :
          /\ log[i].kind = "page"
          /\ outcome.err.req = i
          /\ \E j \in OfKind("page") : answers[j].st = "ok"

\* C10: a request that fails during a facade call made by a convenience
\* function ends the convenience function with that failure: no facade call
\* is made afterwards, so that every later request is one of the same call
\* of get_result, and the function ends by raising the request's exception.
C10_LooperAborts ==
    \A i \in 1..Len(log) :
        (looper.name # "" /\ answers[i].st = "failed")
        => /\ \A j \in 1..Len(log) : j > i => log[j].call = log[i].call
           /\ looper.pc = "done"
              => looper.out = Raised(Error(answers[i].exc, "transport", i))

----------------------------------------------------------------------------
\* C11: while the k pages of a page-indexed fetch are being fetched, the
\* pool has min(_config["THREADS"], k) workers and the number of page
\* requests in flight is never above that number.
C11_PoolBound ==
    (Active /\ Top.page = "page" /\ Top.pc \in {"pages", "join"})
    => /\ Top.threads = Min(config.THREADS, Top.count_pages)
       /\ Cardinality({i \in inflight : log[i].kind = "page"})
              <= Min(config.THREADS, Top.count_pages)

\* three pages and a cap of two: two requests in flight, the third waiting
C11_Witness ==
    /\ Active
    /\ Top.pc = "pages"
    /\ Top.count_pages = 3
    /\ config.THREADS = 2
    /\ Top.started = 2
    /\ Cardinality({i \in inflight : log[i].kind = "page"}) = 2

----------------------------------------------------------------------------
\* the payload of page x of the query now in params, from the server's store
PagePayload(x) ==
    Slice(cnt, Del(params, {"size"}), ((x - 1) * size) + 1, x * size, 1)

\* C12: in a page-indexed fetch on unchanged data, whatever pages the
\* workers have completed so far and in whatever order, the results hold
\* the payloads of the pages collected so far, each once and in page order;
\* the table returned holds every row of the query once, hence the same
\* rows in every interleaving.
C12_EveryPageOnce ==
    /\ (Active /\ Top.page = "page" /\ ndrift = 0
           /\ Top.pc \in {"pages", "assemble", "done"} /\ Top.count_pages > 0)
       => Top.rows = Concat([x \in 1..Top.collected |-> PagePayload(x)])
    /\ (outcome.status = "returned" /\ style = "page" /\ ndrift = 0
           /\ probed <= HUBEAU_MAX_ROWS)
       => /\ RowsOnce(outcome.table, Query)
          /\ NRows(outcome.table) = probed

\* the third page was answered before the second, the first is collected
C12_Witness ==
    /\ Active
    /\ Top.pc = "pages"
    /\ Top.count_pages = 3
    /\ ndrift = 0
    /\ Top.collected = 1
    /\ Top.resp[2].st = "sent"
    /\ Top.resp[3].st = "ok"
    /\ NRows(Top.rows) = size

----------------------------------------------------------------------------
(* Observations on a call of list_to_str_param *)

Encoded == enc.pc \in {"once", "twice"}
HasItems == enc.x.t \in {"str", "list", "tuple", "set"}

\* the number of commas of a string
RECURSIVE Commas(_)
Commas(s) == IF s = <<>> THEN 0
             ELSE (IF Head(s) = "," THEN 1 ELSE 0) + Commas(Tail(s))

\* the items of the input: the elements of a collection, the stripped
\* pieces between the commas of a string
ItemsOf(x) ==
    IF x.t = "str"
    THEN [k \in 1..(Commas(x.s) + 1) |-> Str(Strip(Split(x.s)[k]))]
    ELSE x.items

\* string s is made of n tokens separated by commas
HasTokens(s, n) == IF n = 0 THEN s = <<>> ELSE Commas(s) = n - 1

CardinalityBroken ==
    \/ enc.max # 0 /\ Len(ItemsOf(enc.x)) > enc.max
    \/ enc.exact # 0 /\ Len(ItemsOf(enc.x)) # enc.exact

\* C13: list_to_str_param called on a string or a collection without
\* allow-list raises its ValueError on the number of items when there are
\* more items than the declared maximum or not the declared exact number of
\* them, and otherwise returns a string of exactly len(items) tokens
\* separated by commas.
C13_Cardinality ==
    (Encoded /\ HasItems /\ enc.authorized = None)
    => IF CardinalityBroken
       THEN ~enc.out.ok /\ enc.out.err.what \in {"max", "exact"}
       ELSE enc.out.ok /\ HasTokens(enc.out.v, Len(ItemsOf(enc.x)))

\* the items of the input that are not among the authorized values
Offending == SelectSeq(ItemsOf(enc.x),
                 LAMBDA y : y \notin Range(enc.authorized.items))

\* C14: with an allow-list, list_to_str_param called on a string or a
\* collection of an accepted number of items succeeds when every item is
\* among the authorized values, and otherwise raises an error that lists
\* the items that are not, and only those.
C14_AllowList ==
    (Encoded /\ HasItems /\ enc.authorized # None /\ ~CardinalityBroken)
    => IF Offending = <<>>
       THEN enc.out.ok
       ELSE /\ ~enc.out.ok
            /\ enc.out.err.what = "unauthorized"
            /\ enc.out.violation = StrEach(Offending)

\* C15: for a list, tuple or set that list_to_str_param accepts, calling
\* it again on the string returned, with the same other arguments, returns
\* that same string.
C15_Idempotent ==
    (enc.pc = "twice" /\ enc.x.t \in {"list", "tuple", "set"})
    => enc.again.ok /\ enc.again.v = enc.out.v

\* the items a value of an accepted shape stands for, a scalar that is not
\* a string standing for itself
ShapeItems(x) == IF x.t = "int" THEN <<x>> ELSE ItemsOf(x)
JoinedItems(x) == Join([k \in 1..Len(ShapeItems(x)) |-> ShapeItems(x)[k].s])
DefaultArgs == enc.max = 0 /\ enc.exact = 0 /\ enc.authorized = None

\* the outcome of list_to_str_param when the shapes of set accepted are the
\* ones it takes: such a value is never refused for its shape, is accepted
\* when no other argument is given, and what is returned is the
\* comma-joined string of its items; a value of another shape is refused as
\* of unexpected format
ShapesAre(accepted) ==
    IF enc.x.t \in accepted
    THEN /\ DefaultArgs => enc.out.ok
         /\ enc.out.ok => enc.out.v = JoinedItems(enc.x)
         /\ ~enc.out.ok => enc.out.err.what # "unexpected_format"
    ELSE ~enc.out.ok /\ enc.out.err.what = "unexpected_format"

\* C16, scalars of any type: list_to_str_param accepts a scalar, a list, set or tuple,
\* or a comma-joined string, and returns the comma-joined string of its
\* items; a value of any other shape is rejected as of unexpected format.
C16_ScalarAccepted ==
    Encoded => ShapesAre({"int", "str", "list", "tuple", "set"})

\* C16, strings only: list_to_str_param accepts a string (one token, or tokens
\* joined by commas, each stripped of its blanks) or a list, set or tuple,
\* and returns the comma-joined string of its items; any other value, a
\* scalar that is not a string included, is rejected as of unexpected format.
C16_StringOrCollection ==
    Encoded => ShapesAre({"str", "list", "tuple", "set"})

C16_Witness ==
    /\ Encoded
    /\ enc.x.t = "int"
    /\ ~enc.out.ok
    /\ enc.out.err.what = "unexpected_format"

\* what a facade or a looper reports of an argument it refuses for its
\* number of values, its shape, its values or the format of its date
ParameterViolations == {"max", "exact", "unauthorized", "unexpected_format",
                        "date_format"}

\* the call the client made has raised err
ClientRaised(err) ==
    IF looper.name # ""
    THEN looper.pc = "done" /\ looper.out.status = "raised" /\ looper.out.err = err
    ELSE fac.pc = "done" /\ fac.out.status = "raised" /\ fac.out.err = err

\* C17: when the call of a facade or of a looper raises for a parameter the
\* code refuses, that call has issued no HTTP request.
C17_FailFast ==
    \A what \in ParameterViolations :
        ClientRaised(Error("ValueError", what, 0)) => log = <<>>

VersionMismatch ==
    ver.version # 0 /\ ver.api_version # 0 /\ ver.version # ver.api_version

\* C18: when the session expects a version and the server reports another
\* one, get_result emits the warning on the version for the url it has
\* probed, the warning raises nothing, and over the calls made so far the
\* warning was emitted at most once for each url.
C18_VersionWarning ==
    VersionMismatch
    => /\ (fac.pc = "run" /\ probed >= 0) => Emitted(ver, "warn", Url) # {}
       /\ outcome.status = "raised" => outcome.err.what # "version"
       /\ \A f \in Facades : Cardinality(Emitted(ver, "warn", f.name)) <= 1

\* C19: the adapter sends a GET again only after an answer 500, 502, 503 or
\* 504, at most 10 times (11 attempts), waiting twice as long from one
\* retry to the next; an answer of any other error status is never followed
\* by a retry: request raises its ValueError at once.
C19_Retries ==
    tr.pc # "none"
    => /\ tr.attempts <= RetryTotal + 1
       /\ tr.retried \subseteq {500, 502, 503, 504}
       /\ \A k \in 2..(Len(tr.waits) - 1) :
             (tr.waits[k].by = "backoff" /\ tr.waits[k + 1].by = "backoff")
             => tr.waits[k + 1].s = Min(BackoffMax, 2 * tr.waits[k].s)
       /\ (tr.pc = "done" /\ ~Ok(tr.status) /\ tr.status \notin {500, 502, 503, 504})
          => tr.out = "ValueError"

\* C20: the table get_result returns has no column that is null in every
\* one of its rows.
C20_NoEmptyColumn ==
    (outcome.status = "returned" /\ NRows(outcome.table) > 0)
    => \A c \in columns : ~AllNull(c, outcome.table)

----------------------------------------------------------------------------
(* Observations on a run of a phytopharmaceuticals looper *)

PhytopharmaceuticalsLooper == Looper(looper.name).first = "combos_call"

\* the territories and the years the keyword arguments select
SelectedTerritories ==
    IF Has(looper.kwargs, "code_territoire") THEN {looper.kwargs["code_territoire"]}
    ELSE IF Has(looper.kwargs, "type_territoire") THEN Range(DepList)
    ELSE {EMPTY}
SelectedYears ==
    (IF Has(looper.kwargs, "annee_min") THEN looper.kwargs["annee_min"]
     ELSE IF TransactionOf(looper.name) = "sold" THEN 2008 ELSE 2013)
    ..(IF Has(looper.kwargs, "annee_max") THEN looper.kwargs["annee_max"]
       ELSE ThisYear)

\* the facade queries issued so far, each seen by its probe
FacadeQueries == {i \in 1..Len(log) : log[i].kind = "probe"}
QueriesOf(t, y) ==
    {i \in FacadeQueries :
        /\ Has(log[i].prm, "annee_min") /\ log[i].prm["annee_min"] = y
        /\ Has(log[i].prm, "annee_max") /\ log[i].prm["annee_max"] = y
        /\ IF t = EMPTY THEN ~Has(log[i].prm, "code_territoire")
           ELSE Has(log[i].prm, "code_territoire")
                /\ log[i].prm["code_territoire"] = t}

\* C21: a phytopharmaceuticals looper queries the facade with
\* annee_min = annee_max = y for pairs (territory, year) of the selected
\* territories and of the years from annee_min (2013 for bought, 2008 for
\* sold when not given) to annee_max (the current year when not given) only,
\* never twice for the same pair, and when it returns it has queried each
\* pair exactly once.
C21_OneQueryPerPair ==
    (looper.name # "" /\ PhytopharmaceuticalsLooper)
    => /\ FacadeQueries = UNION {QueriesOf(t, y) :
                                    t \in SelectedTerritories, y \in SelectedYears}
       /\ \A t \in SelectedTerritories, y \in SelectedYears :
             Cardinality(QueriesOf(t, y)) <= 1
       /\ (looper.pc = "done" /\ looper.out.status = "returned")
          => \A t \in SelectedTerritories, y \in SelectedYears :
                Cardinality(QueriesOf(t, y)) = 1

\* the bought substances of every department, from 2013 to the current year
C21_Witness ==
    /\ looper.name = "phytopharmaceuticals_transactions.get_all_active_substances_bought"
    /\ looper.kwargs = Put(EmptyDict, "type_territoire", Departement)
    /\ looper.pc = "done"
    /\ looper.out.status = "returned"
    /\ NRows(looper.out.table) > 0
    /\ Cardinality(FacadeQueries) = Len(DepList) * (ThisYear - 2013 + 1)

----------------------------------------------------------------------------
\* C22: watercourses_flow.get_all_observations, fish.get_all_observations
\* and fish.get_all_operations, called with a valid range of dates (or none)
\* and met by no transport failure, return: they have queried the facade
\* once for each window of the range, one window at least, and their table
\* is the concatenation of the tables of the windows that are not empty.
C22_WindowLoopers ==
    (/\ looper.name \in {"watercourses_flow.get_all_observations",
                         "fish.get_all_observations", "fish.get_all_operations"}
     /\ looper.pc = "done"
     /\ nfail = 0)
    => /\ looper.out.status = "returned"
       /\ FacadeQueries # {}
       /\ Cardinality(FacadeQueries) = Len(looper.codes)
       /\ NRows(looper.out.table) = NRows(Concat(NonEmpty(looper.results)))

----------------------------------------------------------------------------
(* Observations on the split of an interval of dates *)

\* the activations that have split their interval of dates
Splitting == {k \in 1..Len(stack) : stack[k].pc \in {"loop", "call"}}
\* the interval of dates of activation k: that of the client's query, or the
\* window its caller has written into params
DeclaredStart(k) ==
    IF k = 1 THEN Query[time_start]
    ELSE stack[k - 1].timeranges[stack[k - 1].wi][1]
DeclaredEnd(k) ==
    IF k = 1 THEN Query[time_end]
    ELSE LET w == stack[k - 1].timeranges[stack[k - 1].wi] IN w[Len(w)]
Consecutive(w) == \A j \in 1..(Len(w) - 1) : w[j + 1] = w[j] + 1

\* C23: an activation whose probe reports more than 20,000 rows splits its
\* interval of dates [start, end] in two intervals of consecutive days: the
\* first starts at start, the second starts on the day after the first ends
\* and ends at end, and their numbers of days differ by one at most.
C23_MidpointSplit ==
    \A k \in Splitting :
        LET first == stack[k].timeranges[1]
            second == stack[k].timeranges[2]
        IN  /\ first # <<>> /\ second # <<>>
            /\ Consecutive(first) /\ Consecutive(second)
            /\ first[1] = DeclaredStart(k)
            /\ second[1] = first[Len(first)] + 1
            /\ second[Len(second)] = DeclaredEnd(k)
            /\ Len(first) - Len(second) \in {-1, 0, 1}

\* no probe of a single day was answered with more than 20,000 rows
SingleDayFits ==
    \A i \in OfKind("probe") :
        (/\ answers[i].st = "ok"
         /\ Has(log[i].prm, "date_debut") /\ Has(log[i].prm, "date_fin")
         /\ log[i].prm["date_debut"] = log[i].prm["date_fin"])
        => answers[i].count <= HUBEAU_MAX_ROWS
DaysOf(k) == DeclaredEnd(k) - DeclaredStart(k) + 1

\* C24: in a call of get_result with both date bounds, as long as no probe
\* of a single day is answered with more than 20,000 rows: an activation
\* splits its interval only when its probe reported more than 20,000 rows,
\* the interval of every inner activation is strictly shorter than that of
\* its caller, the call ends neither on the recursion limit nor on an empty
\* window, and it issues at most 2n - 1 probes for an interval of n days.
C24_CountDrivenDescent ==
    (time_start # "" /\ HasBounds /\ SingleDayFits)
    => /\ \A k \in Splitting : stack[k].count_rows > HUBEAU_MAX_ROWS
       /\ \A k \in 2..Len(stack) : DaysOf(k) < DaysOf(k - 1) /\ DaysOf(k) >= 1
       /\ outcome.status = "raised"
          => outcome.err.type # "RecursionError" /\ outcome.err.what # "NaT"
       /\ Cardinality(OfKind("probe"))
             <= 2 * (Query["date_fin"] - Query["date_debut"] + 1) - 1

\* an interval of three days split twice: five probes
C24_Witness ==
    /\ time_start # "" /\ HasBounds /\ SingleDayFits
    /\ outcome.status = "returned"
    /\ probed > HUBEAU_MAX_ROWS
    /\ Cardinality(OfKind("probe")) = 5
    /\ \E i \in OfKind("probe") : log[i].depth = 3

----------------------------------------------------------------------------
(* Observations on a call of prepare_kwargs_loops *)

WindowsOf(rows) == {<<rows[k].min, rows[k].max>> : k \in 1..Len(rows)}
TerritoriesOf(w) == IF w.has_territory THEN Range(w.territory) ELSE {EMPTY}
FirstDay(w) == IF w.auto THEN Epoch ELSE w.start

\* C28: for start <= end prepare_kwargs_loops returns windows that partition
\* the period: no two windows share a day, each window starts at the first
\* day of the period (1900-01-01 when the start was set by the looper) or on
\* the day after another window ends, one window ends at end and none after
\* it, each pair of a window and a territory value is in one row exactly,
\* and a period of one year in windows of 6 months gives two windows.
C28_WindowsPartition ==
    win.pc = "done"
    => LET rows == win.out.rows
           W == WindowsOf(rows)
       IN  /\ win.out.status = "returned"
           /\ \A w \in W : w[1] <= w[2] /\ w[2] <= win.end
           /\ \A w1, w2 \in W : w1 # w2 => (w1[2] < w2[1] \/ w2[2] < w1[1])
           /\ \A w \in W : w[1] = FirstDay(win) \/ \E v \in W : v[2] + 1 = w[1]
           /\ \E w \in W : w[1] = FirstDay(win)
           /\ \E w \in W : w[2] = win.end
           /\ \A w \in W, t \in TerritoriesOf(win) :
                 Cardinality({k \in 1..Len(rows) :
                     rows[k] = [min |-> w[1], max |-> w[2], territory |-> t]}) = 1
           /\ Len(rows) = Cardinality(W) * Cardinality(TerritoriesOf(win))
           /\ (~win.auto /\ win.months = 6 /\ win.end - win.start + 1 = YearLen)
              => Cardinality(W) = 2

\* one year from the second day of a month, in windows of 6 months, for two
\* territories
C28_Witness ==
    /\ win.pc = "done"
    /\ ~win.auto
    /\ win.months = 6
    /\ win.start = AutoStart + 1
    /\ win.end - win.start + 1 = YearLen
    /\ Len(win.territory) = 2
    /\ Len(win.out.rows) = 4

\* ---------------------------------------------------------------------
\* The rows assembled from a chain of cursor pages
\* ---------------------------------------------------------------------

\* the rows the server hands out for the i-th request of the log
CursorPayload(i) == Response(cnt, style, log[i].prm).data

\* the payloads of the cursor requests of the call, the last page first
CursorPayloads ==
    LET n == Cardinality(OfKind("cursor"))
    IN  Concat([k \in 1..n |-> CursorPayload(Len(log) + 1 - k)])

\* C25: a cursor-indexed fetch that followed its chain of N pages to the
\* end returns a table in which no row occurs twice; on unchanged data the
\* table is made of the payloads of the N requests, each once (no page is
\* dropped, none repeated), holds every row of the query once, and its
\* length is the probed count.
C25_EveryCursorPageOnce ==
    (style = "cursor" /\ outcome.status = "returned"
        /\ probed >= 0 /\ probed <= HUBEAU_MAX_ROWS)
    => LET t == outcome.table
       IN  /\ \A k, l \in 1..Len(t) :
                 (k < l /\ t[k][1] = t[l][1])
                 => (t[k][3] < t[l][2] \/ t[l][3] < t[k][2])
           /\ ndrift = 0
              => /\ t = CursorPayloads
                 /\ RowsOnce(t, Query)
                 /\ NRows(t) = probed

\* three cursor pages, the last one short and first in the table
C25_Witness ==
    /\ style = "cursor"
    /\ outcome.status = "returned"
    /\ ndrift = 0
    /\ probed = 12000
    /\ size = 5000
    /\ Cardinality(OfKind("cursor")) = 3
    /\ Len(outcome.table) = 3
    /\ NRows(CursorPayload(Len(log))) = 2000
    /\ outcome.table[1][2] = 10001
    /\ outcome.table[3][2] = 1

\* ---------------------------------------------------------------------
\* The workers of the page pool
\* ---------------------------------------------------------------------

\* a step of a worker: a page request is sent, answered or fails
WorkerStep == Active /\ Top.pc \in {"pages", "join"} /\ inflight' # inflight

\* what a worker has of its own: its slot among the futures of the pool
\* and the pool's count of the tasks handed out
WorkerFields == {"resp", "started"}

\* C26: in a page fetch a step of a worker changes nothing but the network
\* and its own future: the parameters, the results gathered so far and
\* every other field of the activation are left as they are.  A worker
\* sends one GET, with a copy of the parameters that differs from them in
\* the page number only, the number of its page; its payload goes to its
\* own future, and the results grow in steps of the calling thread only.
C26_WorkersShareNothing ==
    [][WorkerStep =>
        /\ UNCHANGED <<params, params0, time_start, time_end, outcome, warned>>
        /\ UNCHANGED <<probed, cnt, style, size, config, enc, looper, fac>>
        /\ UNCHANGED <<call0, ndrift, ver, tr, columns, win>>
        /\ Len(stack') = Len(stack)
        /\ \A k \in 1..(Len(stack) - 1) : stack'[k] = stack[k]
        /\ \A f \in (DOMAIN Top) \ WorkerFields : stack'[Len(stack)][f] = Top[f]
        /\ IF log' # log
           THEN LET x == Top.started + 1
                    r == log'[Len(log')]
                IN  /\ log' = Append(log, r)
                    /\ inflight' = inflight \cup {Len(log')}
                    /\ r.kind = "page"
                    /\ DOMAIN r.prm = (DOMAIN params) \cup {Top.page}
                    /\ \A k \in (DOMAIN params) \ {Top.page} : r.prm[k] = params[k]
                    /\ r.prm[Top.page] = x
                    /\ stack'[Len(stack)].started = x
                    /\ \A y \in (DOMAIN Top.resp) \ {x} :
                          stack'[Len(stack)].resp[y] = Top.resp[y]
           ELSE \E i \in inflight :
                    /\ inflight' = inflight \ {i}
                    /\ answers'[i].st \in {"ok", "failed"}
                    /\ stack'[Len(stack)].started = Top.started
                    /\ \A y \in (DOMAIN Top.resp) \ {log[i].prm[Top.page]} :
                          stack'[Len(stack)].resp[y] = Top.resp[y]
    ]_vars

\* the first page is among the results while the next two are in flight
C26_Witness ==
    /\ Active
    /\ Top.pc = "pages"
    /\ Top.collected = 1
    /\ Top.rows # <<>>
    /\ Cardinality(inflight) = 2
    /\ \A i \in inflight : log[i].kind = "page" /\ log[i].prm["page"] \in {2, 3}

\* ---------------------------------------------------------------------
\* The end of an invocation and the requests in flight
\* ---------------------------------------------------------------------

PageRequests == {i \in CallIdx : log[i].kind = "page"}

\* C27: a request is in flight until it is answered or has raised, none is
\* given up; and when no activation of get_result is left, whether the
\* invocation returned or raised, no request is in flight: the pool has
\* been joined, also after the failure of a page.
C27_PoolJoinedAtExit ==
    /\ \A i \in 1..Len(log) : (i \in inflight) <=> (answers[i].st = "pending")
    /\ ~Active => inflight = {}
    /\ outcome.status # "running" => inflight = {}

\* the first of three pages failed and the invocation raised its
\* exception, after the two other pages were answered
C27_Witness ==
    /\ outcome.status = "raised"
    /\ style = "page"
    /\ Cardinality(PageRequests) = 3
    /\ \E i \in PageRequests :
          /\ log[i].prm["page"] = 1
          /\ answers[i].st = "failed"
          /\ outcome.err = TransportError(answers[i].exc, i)
          /\ \A j \in PageRequests \ {i} : answers[j].st = "ok"

\* ---------------------------------------------------------------------
\* The merge of the per-department tables on the key of the rows
\* ---------------------------------------------------------------------

StationLooper == looper.name = "hydrometry.get_all_stations"

\* the number of rows two segments share
Shared(s, e) ==
    IF s[1] # e[1] THEN 0 ELSE Max(0, Min(s[3], e[3]) - Max(s[2], e[2]) + 1)

\* the number of rows of the segment sg found in the table t
RECURSIVE SharedRows(_, _)
SharedRows(sg, t) ==
    IF t = <<>> THEN 0 ELSE Shared(sg, Head(t)) + SharedRows(sg, Tail(t))

\* C29: the table a station-level looper returns after querying department
\* by department holds no entity twice, whatever rows the responses of the
\* departments share, and holds every entity that some response held.
C29_EachEntityOnce ==
    (StationLooper /\ looper.pc = "done" /\ looper.out.status = "returned")
    => LET t == looper.out.table
       IN  /\ \A k, l \in 1..Len(t) :
                 (k < l /\ t[k][1] = t[l][1])
                 => (t[k][3] < t[l][2] \/ t[l][3] < t[k][2])
           /\ \A k \in 1..Len(t) : t[k][2] <= t[k][3]
           /\ \A j \in 1..Len(looper.results) :
                 \A k \in 1..Len(looper.results[j]) :
                    LET sg == looper.results[j][k]
                    IN  SharedRows(sg, t) = sg[3] - sg[2] + 1
           /\ \A k \in 1..Len(t) :
                 \E j \in 1..Len(looper.results) :
                    SharedRows(t[k], looper.results[j]) >= t[k][3] - t[k][2] + 1

\* department 1 was queried twice and both responses held its entities
C29_Witness ==
    /\ StationLooper
    /\ looper.pc = "done"
    /\ looper.out.status = "returned"
    /\ looper.codes = <<1, 1>>
    /\ Len(looper.results) = 2
    /\ looper.results[1] # <<>>
    /\ \E k \in 1..Len(looper.results[1]) :
          SharedRows(looper.results[1][k], looper.results[2]) > 0
    /\ NRows(looper.out.table) < NRows(looper.results[1]) + NRows(looper.results[2])

\* ---------------------------------------------------------------------
\* The timestep of get_realtime_observations
\* ---------------------------------------------------------------------

Realtime == fac.name = "HydrometrySession.get_realtime_observations"

\* C30: a call of get_realtime_observations with a timestep is accepted when
\* one code_entite is given, its queries then carry the timestep, and it is
\* rejected with the ValueError of the timestep exactly when two codes or
\* none are given.
C30_TimestepOneEntite ==
    (Realtime /\ fac.pc \in {"run", "done"} /\ Has(fac.kwargs, "timestep")
        /\ ~Has(fac.kwargs, "dummy"))
    => IF Has(fac.kwargs, "code_entite") /\ fac.kwargs["code_entite"] = 1
       THEN /\ fac.out # Raised(TimestepError)
            /\ \A i \in FacadeQueries :
                  /\ Has(log[i].prm, "timestep")
                  /\ log[i].prm["timestep"] = fac.kwargs["timestep"]
       ELSE fac.out = Raised(TimestepError)

====
